---- MODULE Spec2Model ----
(***************************************************************************)
(* Jokebook: the router / controller / model snapshots of the repository,  *)
(* modelled over one relational store (tables categories and jokes) or,    *)
(* for the mock controller, over its in-memory arrays.                     *)
(*                                                                         *)
(* Every request is a little process: the synchronous code between two     *)
(* awaits is one step, every awaited store statement is one step.  A       *)
(* statement either takes effect or fails (a store failure); the number    *)
(* of failures of a run is bounded.                                        *)
(*                                                                         *)
(* The snapshots are told apart by the variable variant:                   *)
(*   "tx"    unnamed/part_007 (model) under unnamed/part_006 (controller)  *)
(*   "name"  jokeModel.js, the name-keyed model without a transaction      *)
(*   "mem"   unnamed/part_004, the mock controller over arrays             *)
(*   "id"    models/jokeModel.js under the first controller of             *)
(*           unnamed/part_003 (setup / punchline / categoryId), or under   *)
(*           the router of unnamed/part_010 (server.js)                    *)
(*   "flat"  unnamed/part_009 under controllers/jokeController.js and the  *)
(*           error middleware of unnamed/part_001 (one table of jokes)     *)
(***************************************************************************)
EXTENDS Integers, Sequences, FiniteSets, TLC

VARIABLES
    variant,      \* which snapshot of the code runs
    categories,   \* table categories: rows [id, name, tx]
    jokes,        \* table jokes: rows [id, setup, delivery, category_id, created_at, tx]
    catSeq,       \* last value of the sequence behind categories.id (SERIAL)
    jokeSeq,      \* last value of the sequence behind jokes.id (SERIAL)
    clock,        \* the store's clock, read by now()
    tables,       \* the tables that exist in the store
    jokeData,     \* part_004: the array of jokes
    categoryData, \* part_004: the array of categories
    nextJokeId,   \* part_004: the next joke id
    nextCategoryId, \* part_004: the next category id
    pc,           \* per request process: the await it is parked on
    req,          \* per process: the request being served
    loc,          \* per process: the local variables of the handler
    resp,         \* per process: the last response sent (or model result)
    trace,        \* per process: pool and statement events of the current call
    created,      \* jokes whose creation has been acknowledged to a caller
    addsLeft,     \* add-joke calls that may still reach the model
    faultsLeft    \* store failures that may still happen

\* The module state of part_004.
mem == << jokeData, categoryData, nextJokeId, nextCategoryId >>

vars == << variant, categories, jokes, catSeq, jokeSeq, clock, tables, mem, pc, req, loc,
           resp, trace, created, addsLeft, faultsLeft >>

-----------------------------------------------------------------------------
(* Bounds *)

\* add-joke calls that reach the model in a run
MaxAdds == 2

\* store failures in a run of add-joke calls alone
MaxFaults == 2

\* store failures in a run of add-joke and listing requests
ListFaults == 1

\* add-joke requests of the run that fills one category past the default
\* limit of the listing
ManyAdds == 101

\* the sequence behind categories.id while the schema script is run again
MaxCatSeq == 8

\* Two requests are in flight at most.
Procs == {1, 2}

-----------------------------------------------------------------------------
(* JavaScript values.  A string is the sequence of its characters.         *)

Undefined == [t |-> "undefined"]
Str(s) == [t |-> "string", v |-> s]
Num(n) == [t |-> "number", v |-> n]
NaN == [t |-> "NaN"]

\* !x of JavaScript: undefined, "", 0 and NaN are falsy.
Falsy(x) ==
    \/ x.t = "undefined"
    \/ x.t = "NaN"
    \/ (x.t = "string" /\ x.v = << >>)
    \/ (x.t = "number" /\ x.v = 0)

\* The lower-case letter of every upper-case letter.
Lower ==
    LET upper == << "A", "B", "C", "D", "E", "F", "G", "H", "I", "J", "K", "L", "M",
                    "N", "O", "P", "Q", "R", "S", "T", "U", "V", "W", "X", "Y", "Z" >>
        lower == << "a", "b", "c", "d", "e", "f", "g", "h", "i", "j", "k", "l", "m",
                    "n", "o", "p", "q", "r", "s", "t", "u", "v", "w", "x", "y", "z" >>
    IN [c \in {upper[i] : i \in DOMAIN upper} |->
           lower[CHOOSE i \in DOMAIN upper : upper[i] = c]]

LowerChar(c) == IF c \in DOMAIN Lower THEN Lower[c] ELSE c

\* String.prototype.toLowerCase
toLowerCase(s) == [i \in 1 .. Len(s) |-> LowerChar(s[i])]

RECURSIVE TrimStart(_)
TrimStart(s) ==
    IF s = << >> THEN << >>
    ELSE IF Head(s) = " " THEN TrimStart(Tail(s))
    ELSE s

RECURSIVE TrimEnd(_)
TrimEnd(s) ==
    IF s = << >> THEN << >>
    ELSE IF s[Len(s)] = " " THEN TrimEnd(SubSeq(s, 1, Len(s) - 1))
    ELSE s

\* String.prototype.trim
trim(s) == TrimEnd(TrimStart(s))

DigitValue(c) ==
    CASE c = "0" -> 0
      [] c = "1" -> 1
      [] c = "2" -> 2
      [] c = "3" -> 3
      [] c = "4" -> 4
      [] c = "5" -> 5
      [] c = "6" -> 6
      [] c = "7" -> 7
      [] c = "8" -> 8
      [] c = "9" -> 9
      [] OTHER -> -1

IsDigit(c) == DigitValue(c) >= 0

\* The longest prefix of digits of s, as a number, continuing from acc.
RECURSIVE DigitsValue(_, _)
DigitsValue(s, acc) ==
    IF s = << >> \/ ~IsDigit(Head(s)) THEN acc
    ELSE DigitsValue(Tail(s), 10 * acc + DigitValue(Head(s)))

\* parseInt(x, 10): leading white space is skipped, a sign is taken, then
\* the longest run of digits; anything after it is ignored; no digit: NaN.
\* A number argument is first converted to its decimal string.
parseInt(x) ==
    IF x.t = "number" THEN x
    ELSE IF x.t # "string" THEN NaN
    ELSE LET s == TrimStart(x.v)
             neg == s # << >> /\ Head(s) = "-"
             d == IF neg THEN Tail(s) ELSE s
         IN IF d = << >> \/ ~IsDigit(Head(d)) THEN NaN
            ELSE Num(IF neg THEN 0 - DigitsValue(d, 0) ELSE DigitsValue(d, 0))

isNaN(x) == x.t = "NaN"

-----------------------------------------------------------------------------
(* The store.  A row written inside an open transaction carries the        *)
(* process that wrote it in tx; tx = 0 is a committed row.                 *)

\* The tables both schemas create.
SchemaTables == {"categories", "jokes"}

IdsOf(rows) == {r.id : r \in rows}

Committed(rows) == {r \in rows : r.tx = 0}

\* What a statement of process p sees (READ COMMITTED plus its own writes).
VisibleTo(rows, p) == {r \in rows : r.tx = 0 \/ r.tx = p}

-----------------------------------------------------------------------------
(* Requests, locals and responses *)

NoReq == [op |-> "none"]

NoLoc ==
    [ categoryId |-> 0,       \* the category id the handler works with
      jokeId |-> 0,           \* the id returned by the joke insert
      limit |-> Undefined,    \* the limit handed to the model
      txTime |-> 0,           \* now() of the open transaction
      createdCat |-> 0,       \* id of the category row this call inserted
      createdJoke |-> 0,      \* id of the joke row this call inserted
      seenExists |-> FALSE,   \* the category existed when the call looked first
      seenJokes |-> {},       \* at the listing query: ids of the category's jokes
      ackSeen |-> {},         \* at the listing query: acknowledged jokes of it
      listed |-> << >>,       \* ids of the jokes behind the rows of the answer
      categoryMap |-> << >>,  \* initDb: category name to id
      error |-> Undefined,    \* the error the store raised in this call
      terminal |-> << >> ]    \* res.json / res.send / next(error) calls of the handler

NoResp == [kind |-> "none"]

Http(status, body) == [kind |-> "http", status |-> status, body |-> body]

Returned(value) == [kind |-> "return", value |-> value]

Threw(message) == [kind |-> "throw", message |-> message]

Idle(p) == pc[p] = "idle"

\* An event of a call: a pool operation, or a statement and the object it
\* was issued on ("client": the connection the call acquired, "pool").
Event(ev, on) == [ev |-> ev, on |-> on]

\* A store statement may fail while the failure budget lasts.
CanFail == faultsLeft > 0

-----------------------------------------------------------------------------
(* Request inputs *)

\* Bodies of add-joke requests with category, setup and delivery.
AddBodies ==
    { [category |-> Str(<<"P">>), setup |-> Str(<<"s">>), delivery |-> Str(<<"d">>)],
      [category |-> Str(<<"p">>), setup |-> Str(<<"s">>), delivery |-> Str(<<"d">>)],
      [category |-> Str(<<"Q">>), setup |-> Str(<<" ">>), delivery |-> Str(<<"d">>)],
      [category |-> Undefined, setup |-> Str(<<"s">>), delivery |-> Str(<<"d">>)],
      [category |-> Str(<<"P">>), setup |-> Str(<<"s">>), delivery |-> Str(<< >>)] }

\* Values of the :id path parameter.
IdParams == { <<"1">>, <<"4">>, <<"9">>, <<"x">> }

\* Values of the ?limit= query parameter (undefined: not given).
LimitParams == { Undefined, Str(<<"1">>) }

-----------------------------------------------------------------------------
(* unnamed/part_007: the transactional model *)

DefaultLimit == 100

\* INSERT INTO categories (name) VALUES (n)
\*   ON CONFLICT (name) DO UPDATE SET name = EXCLUDED.name RETURNING id
\* has to wait while another open transaction holds a row of that name.
UpsertBlocked(p, n) == \E c \in categories : c.name = n /\ c.tx # 0 /\ c.tx # p

UpsertExisting(p, n) == {c \in VisibleTo(categories, p) : c.name = n}

\* The id the upsert returns: the conflicting row's, or the new row's.
UpsertId(p, n) ==
    IF UpsertExisting(p, n) # {}
    THEN (CHOOSE c \in UpsertExisting(p, n) : TRUE).id
    ELSE catSeq + 1

\* As UpsertRows, had the statement replaced the row of that name by a new
\* row (DELETE and INSERT) instead of updating it in place.
UpsertRowsReplacing(p, n) ==
    (categories \ UpsertExisting(p, n)) \cup {[id |-> catSeq + 1, name |-> n, tx |-> p]}

\* The table after the upsert.
UpsertRows(p, n) ==
    IF UpsertExisting(p, n) # {}
    THEN categories
    ELSE categories \cup {[id |-> catSeq + 1, name |-> n, tx |-> p]}

\* COMMIT of p's transaction.
CommitRows(rows, p) ==
    {IF r.tx = p THEN [r EXCEPT !.tx = 0] ELSE r : r \in rows}

\* ROLLBACK (or abort) of p's transaction.
RollbackRows(rows, p) == {r \in rows : r.tx # p}

\* As ReleasesOnExit, had release() followed the ROLLBACK inside the catch
\* block instead of standing in a finally block.
ReleasesOnExitInCatch(path) == IF path = "rollbackFailed" THEN 0 ELSE 1

\* finally { client.release() }: the releases on leaving addJoke, by the
\* way the try block was left ("commit", "rollback", "rollbackFailed").
ReleasesOnExit(path) == 1

ReleaseEvents(path) == [i \in 1 .. ReleasesOnExit(path) |-> Event("release", "client")]

\* The object addJoke returns.
TxJokeResult(id, body) ==
    [ id |-> id,
      category |-> toLowerCase(body.category.v),
      setup |-> body.setup.v,
      delivery |-> body.delivery.v ]

\* part_006 addJoke up to its await: the body is validated.
TxAddJokeRequest(p, body) ==
    /\ variant = "tx"
    /\ Idle(p)
    /\ req' = [req EXCEPT ![p] = [op |-> "addJoke", body |-> body]]
    /\ loc' = [loc EXCEPT ![p] =
           [NoLoc EXCEPT !.seenExists =
               /\ body.category.t = "string"
               /\ \E c \in Committed(categories) : c.name = toLowerCase(body.category.v)]]
    /\ trace' = [trace EXCEPT ![p] = << >>]
    /\ IF Falsy(body.category) \/ Falsy(body.setup) \/ Falsy(body.delivery)
       THEN /\ resp' = [resp EXCEPT ![p] = Http(400,
                  [error |-> "Missing required fields: category, setup, and delivery."])]
            /\ UNCHANGED << pc, addsLeft >>
       ELSE /\ addsLeft > 0
            /\ addsLeft' = addsLeft - 1
            /\ pc' = [pc EXCEPT ![p] = "connect"]
            /\ resp' = [resp EXCEPT ![p] = NoResp]
    /\ UNCHANGED << variant, mem, tables, categories, jokes, catSeq, jokeSeq, clock, created, faultsLeft >>

\* part_006 catch: the model threw.
TxAddJokeFailed(p) ==
    /\ resp' = [resp EXCEPT ![p] = Http(500,
           [error |-> "Failed to add joke due to a database error."])]
    /\ pc' = [pc EXCEPT ![p] = "idle"]

\* const client = await pool.connect()
TxConnect(p) ==
    /\ variant = "tx"
    /\ pc[p] = "connect"
    /\ \/ /\ trace' = [trace EXCEPT ![p] = Append(@, Event("connect", "pool"))]
          /\ pc' = [pc EXCEPT ![p] = "begin"]
          /\ UNCHANGED << resp, faultsLeft >>
       \/ /\ CanFail
          /\ faultsLeft' = faultsLeft - 1
          /\ TxAddJokeFailed(p)
          /\ UNCHANGED trace
    /\ UNCHANGED << variant, mem, tables, categories, jokes, catSeq, jokeSeq, clock, req, loc,
                    created, addsLeft >>

\* await client.query('BEGIN')
TxBegin(p) ==
    /\ variant = "tx"
    /\ pc[p] = "begin"
    /\ trace' = [trace EXCEPT ![p] = Append(@, Event("BEGIN", "client"))]
    /\ \/ /\ clock' = clock + 1
          /\ loc' = [loc EXCEPT ![p].txTime = clock + 1]
          /\ pc' = [pc EXCEPT ![p] = "upsert"]
          /\ UNCHANGED faultsLeft
       \/ /\ CanFail
          /\ faultsLeft' = faultsLeft - 1
          /\ pc' = [pc EXCEPT ![p] = "rollback"]
          /\ UNCHANGED << clock, loc >>
    /\ UNCHANGED << variant, mem, tables, categories, jokes, catSeq, jokeSeq, req, resp,
                    created, addsLeft >>

\* 1. Find or create the category (the name is lower-cased).
TxUpsertCategory(p) ==
    /\ variant = "tx"
    /\ pc[p] = "upsert"
    /\ LET n == toLowerCase(req[p].body.category.v) IN
       \/ /\ ~UpsertBlocked(p, n)
          /\ trace' = [trace EXCEPT ![p] = Append(@, Event("UPSERT", "client"))]
          /\ categories' = UpsertRows(p, n)
          /\ catSeq' = catSeq + 1
          /\ loc' = [loc EXCEPT ![p].categoryId = UpsertId(p, n),
                                ![p].createdCat =
                                    IF UpsertExisting(p, n) = {} THEN catSeq + 1 ELSE 0]
          /\ pc' = [pc EXCEPT ![p] = "insert"]
          /\ UNCHANGED faultsLeft
       \/ /\ CanFail
          /\ faultsLeft' = faultsLeft - 1
          /\ trace' = [trace EXCEPT ![p] = Append(@, Event("UPSERT", "client"))]
          /\ pc' = [pc EXCEPT ![p] = "rollback"]
          /\ UNCHANGED << categories, catSeq, loc >>
    /\ UNCHANGED << variant, mem, tables, jokes, jokeSeq, clock, req, resp, created, addsLeft >>

\* 2. Insert the joke.
TxInsertJoke(p) ==
    /\ variant = "tx"
    /\ pc[p] = "insert"
    /\ trace' = [trace EXCEPT ![p] = Append(@, Event("INSERT", "client"))]
    /\ \/ /\ jokes' = jokes \cup
                 {[ id |-> jokeSeq + 1,
                    setup |-> req[p].body.setup.v,
                    delivery |-> req[p].body.delivery.v,
                    category_id |-> loc[p].categoryId,
                    created_at |-> loc[p].txTime,
                    tx |-> p ]}
          /\ jokeSeq' = jokeSeq + 1
          /\ loc' = [loc EXCEPT ![p].jokeId = jokeSeq + 1,
                                ![p].createdJoke = jokeSeq + 1]
          /\ pc' = [pc EXCEPT ![p] = "commit"]
          /\ UNCHANGED faultsLeft
       \/ /\ CanFail
          /\ faultsLeft' = faultsLeft - 1
          /\ pc' = [pc EXCEPT ![p] = "rollback"]
          /\ UNCHANGED << jokes, jokeSeq, loc >>
    /\ UNCHANGED << variant, mem, tables, categories, catSeq, clock, req, resp, created, addsLeft >>

\* await client.query('COMMIT'); on success the finally block releases the
\* client, addJoke returns and part_006 answers 201.
TxCommit(p) ==
    /\ variant = "tx"
    /\ pc[p] = "commit"
    /\ \/ /\ categories' = CommitRows(categories, p)
          /\ jokes' = CommitRows(jokes, p)
          /\ trace' = [trace EXCEPT ![p] = Append(@, Event("COMMIT", "client")) \o ReleaseEvents("commit")]
          /\ created' = created \cup
                 {[id |-> loc[p].jokeId, category_id |-> loc[p].categoryId]}
          /\ resp' = [resp EXCEPT ![p] = Http(201,
                 [ message |-> "Joke added successfully!",
                   joke |-> TxJokeResult(loc[p].jokeId, req[p].body) ])]
          /\ pc' = [pc EXCEPT ![p] = "idle"]
          /\ UNCHANGED faultsLeft
       \/ /\ CanFail
          /\ faultsLeft' = faultsLeft - 1
          /\ trace' = [trace EXCEPT ![p] = Append(@, Event("COMMIT", "client"))]
          /\ pc' = [pc EXCEPT ![p] = "rollback"]
          /\ UNCHANGED << categories, jokes, created, resp >>
    /\ UNCHANGED << variant, mem, tables, catSeq, jokeSeq, clock, req, loc, addsLeft >>

\* catch (e) { await client.query('ROLLBACK'); throw e } finally { release }.
\* Whether ROLLBACK answers or fails too, the store drops the transaction.
TxRollback(p) ==
    /\ variant = "tx"
    /\ pc[p] = "rollback"
    /\ categories' = RollbackRows(categories, p)
    /\ jokes' = RollbackRows(jokes, p)
    /\ \/ /\ trace' = [trace EXCEPT ![p] =
                 Append(@, Event("ROLLBACK", "client")) \o ReleaseEvents("rollback")]
          /\ UNCHANGED faultsLeft
       \/ /\ CanFail
          /\ faultsLeft' = faultsLeft - 1
          /\ trace' = [trace EXCEPT ![p] =
                 Append(@, Event("ROLLBACK failed", "client")) \o ReleaseEvents("rollbackFailed")]
    /\ TxAddJokeFailed(p)
    /\ UNCHANGED << variant, mem, tables, catSeq, jokeSeq, clock, req, loc, created, addsLeft >>

\* ORDER BY created_at DESC, as a sequence.
RECURSIVE OrderByCreatedAtDesc(_)
OrderByCreatedAtDesc(S) ==
    IF S = {} THEN << >>
    ELSE LET m == CHOOSE j \in S : \A k \in S :
                      \/ k.created_at < j.created_at
                      \/ (k.created_at = j.created_at /\ k.id <= j.id)
         IN << m >> \o OrderByCreatedAtDesc(S \ {m})

\* LIMIT n
Limit(rows, n) == SubSeq(rows, 1, IF n < Len(rows) THEN n ELSE Len(rows))

CategoryName(id) == (CHOOSE c \in Committed(categories) : c.id = id).name

\* SELECT j.id, c.name as category, j.setup, j.delivery
TxJokeRow(j) ==
    [ id |-> j.id,
      category |-> CategoryName(j.category_id),
      setup |-> j.setup,
      delivery |-> j.delivery ]

\* FROM jokes j JOIN categories c ON j.category_id = c.id WHERE j.category_id = $1
TxJokesOfCategory(categoryId) ==
    {j \in Committed(jokes) :
        /\ j.category_id = categoryId
        /\ \E c \in Committed(categories) : c.id = j.category_id}

\* getJokesByCategoryId(categoryId, limit = 100): the default applies when
\* the caller passes undefined.
TxEffectiveLimit(limit) == IF limit.t = "undefined" THEN Num(DefaultLimit) ELSE limit

\* LIMIT $2 rejects NaN and negative numbers: the statement fails.
TxLimitAccepted(limit) ==
    TxEffectiveLimit(limit).t = "number" /\ TxEffectiveLimit(limit).v >= 0

TxGetJokesByCategoryId(categoryId, limit) ==
    LET ordered == OrderByCreatedAtDesc(TxJokesOfCategory(categoryId))
        cut == Limit(ordered, TxEffectiveLimit(limit).v)
    IN [i \in 1 .. Len(cut) |-> TxJokeRow(cut[i])]

\* What the listing query finds in the store, kept for the claims.
Snapshot(l, categoryId) ==
    [l EXCEPT !.seenExists = \E c \in Committed(categories) : c.id = categoryId,
              !.seenJokes = {j.id : j \in {k \in Committed(jokes) :
                                               k.category_id = categoryId}},
              !.ackSeen = {j.id : j \in {k \in created :
                                             k.category_id = categoryId}}]

\* part_006 getJokesByCategoryId up to its await.
TxListRequest(p, id, lim) ==
    /\ variant = "tx"
    /\ Idle(p)
    /\ req' = [req EXCEPT ![p] = [op |-> "list", id |-> id, limit |-> lim]]
    /\ trace' = [trace EXCEPT ![p] = << >>]
    /\ LET categoryId == parseInt(Str(id))
           limit == IF Falsy(lim) THEN Undefined ELSE parseInt(lim)
       IN IF isNaN(categoryId)
          THEN /\ resp' = [resp EXCEPT ![p] = Http(400,
                     [error |-> "Invalid category ID provided."])]
               /\ loc' = [loc EXCEPT ![p] = NoLoc]
               /\ UNCHANGED pc
          ELSE /\ resp' = [resp EXCEPT ![p] = NoResp]
               /\ loc' = [loc EXCEPT ![p] =
                      [NoLoc EXCEPT !.categoryId = categoryId.v, !.limit = limit]]
               /\ pc' = [pc EXCEPT ![p] = "listQuery"]
    /\ UNCHANGED << variant, mem, tables, categories, jokes, catSeq, jokeSeq, clock, created,
                    addsLeft, faultsLeft >>

\* part_006 getJokesByCategoryId after the model answered or threw.
TxListQuery(p) ==
    /\ variant = "tx"
    /\ pc[p] = "listQuery"
    /\ pc' = [pc EXCEPT ![p] = "idle"]
    /\ loc' = [loc EXCEPT ![p] = Snapshot(@, loc[p].categoryId)]
    /\ \/ /\ TxLimitAccepted(loc[p].limit)
          /\ LET jokesFound == TxGetJokesByCategoryId(loc[p].categoryId, loc[p].limit)
             IN resp' = [resp EXCEPT ![p] =
                    IF Len(jokesFound) = 0
                    THEN Http(404, [error |-> "No jokes found for this category ID."])
                    ELSE Http(200, jokesFound)]
          /\ UNCHANGED faultsLeft
       \/ /\ ~TxLimitAccepted(loc[p].limit)
          /\ resp' = [resp EXCEPT ![p] = Http(500,
                 [error |-> "Failed to retrieve jokes from database."])]
          /\ UNCHANGED faultsLeft
       \/ /\ CanFail
          /\ faultsLeft' = faultsLeft - 1
          /\ resp' = [resp EXCEPT ![p] = Http(500,
                 [error |-> "Failed to retrieve jokes from database."])]
    /\ UNCHANGED << variant, mem, tables, categories, jokes, catSeq, jokeSeq, clock, req, trace,
                    created, addsLeft >>

-----------------------------------------------------------------------------
(* jokeModel.js: the name-keyed model; every statement goes to pool.query   *)
(* and commits on its own.                                                 *)

\* The bodies that pass the controllers' presence check: the arguments the
\* model is called with.
ValidAddBodies ==
    {b \in AddBodies : ~(Falsy(b.category) \/ Falsy(b.setup) \/ Falsy(b.delivery))}

\* SELECT id FROM categories WHERE name = $1
NameSelectRows(name) == {c \in Committed(categories) : c.name = name}

\* The text read as a character of the statement: a decimal index.
IsIndex(name) == name # << >> /\ \A i \in DOMAIN name : IsDigit(name[i])

\* 'SELECT id FROM categories WHERE name = $1'[category]: the brackets read
\* a property of the string literal; a name that is no index reads undefined.
NameCheckText(name) == IF IsIndex(name) THEN Str(<< "S" >>) ELSE Undefined

\* pool.query(text) with that value: undefined is refused by the client and
\* a single character is no statement, so the check always rejects.
NameCheckRejects(name) ==
    NameCheckText(name).t = "undefined" \/ Len(NameCheckText(name).v) = 1

\* ORDER BY j.id, as a sequence.
RECURSIVE OrderById(_)
OrderById(S) ==
    IF S = {} THEN << >>
    ELSE LET m == CHOOSE j \in S : \A k \in S : j.id <= k.id
         IN << m >> \o OrderById(S \ {m})

\* FROM jokes j JOIN categories c ON j.category_id = c.id WHERE c.name = $1
NameJokesOfCategory(name) ==
    {j \in Committed(jokes) :
        \E c \in Committed(categories) : c.id = j.category_id /\ c.name = name}

\* if (limit && !isNaN(parseInt(limit))) query += ' LIMIT $2'
NameHasLimit(limit) == ~Falsy(limit) /\ ~isNaN(parseInt(limit))

\* The rows of getJokesByCategory, still as rows of jokes.
NameFoundJokes(name, limit) ==
    IF NameHasLimit(limit)
    THEN Limit(OrderById(NameJokesOfCategory(name)), parseInt(limit).v)
    ELSE OrderById(NameJokesOfCategory(name))

\* LIMIT $2 rejects a negative number.
NameLimitAccepted(limit) == NameHasLimit(limit) => parseInt(limit).v >= 0

\* SELECT j.setup, j.delivery
NameJokeRows(found) ==
    [i \in 1 .. Len(found) |-> [setup |-> found[i].setup, delivery |-> found[i].delivery]]

Ids(found) == [i \in 1 .. Len(found) |-> found[i].id]

\* The result of getJokesByCategory once its first query has answered.
NameListResult(name, limit) ==
    IF Len(NameFoundJokes(name, limit)) = 0 /\ NameCheckRejects(name)
    THEN Threw("Could not fetch jokes from the database.")
    ELSE IF Len(NameFoundJokes(name, limit)) = 0 /\ NameSelectRows(name) = {}
    THEN Returned("invalid category")
    ELSE Returned(NameJokeRows(NameFoundJokes(name, limit)))

\* As NameAddJokeThrew, had the catch block returned an empty list.
NameAddJokeSwallowed(p) ==
    /\ resp' = [resp EXCEPT ![p] = Returned(<< >>)]
    /\ pc' = [pc EXCEPT ![p] = "idle"]

\* catch (error) { .. throw new Error(`Database error adding joke: ..`) }
NameAddJokeThrew(p) ==
    /\ resp' = [resp EXCEPT ![p] = Threw("Database error adding joke")]
    /\ pc' = [pc EXCEPT ![p] = "idle"]

\* addJoke(setup, delivery, category) is called.
NameAddJokeCall(p, body) ==
    /\ variant = "name"
    /\ Idle(p)
    /\ addsLeft > 0
    /\ addsLeft' = addsLeft - 1
    /\ req' = [req EXCEPT ![p] = [op |-> "addJoke", body |-> body]]
    /\ loc' = [loc EXCEPT ![p] =
           [NoLoc EXCEPT !.seenExists = NameSelectRows(body.category.v) # {}]]
    /\ resp' = [resp EXCEPT ![p] = NoResp]
    /\ trace' = [trace EXCEPT ![p] = << >>]
    /\ pc' = [pc EXCEPT ![p] = "selectCategory"]
    /\ UNCHANGED << variant, mem, tables, categories, jokes, catSeq, jokeSeq, clock, created,
                    faultsLeft >>

\* 1. SELECT id FROM categories WHERE name = $1
NameSelectCategory(p) ==
    /\ variant = "name"
    /\ pc[p] = "selectCategory"
    /\ trace' = [trace EXCEPT ![p] = Append(@, Event("SELECT", "pool"))]
    /\ LET rows == NameSelectRows(req[p].body.category.v) IN
       \/ /\ "categories" \in tables
          /\ rows = {}
          /\ pc' = [pc EXCEPT ![p] = "insertCategory"]
          /\ UNCHANGED << loc, resp, faultsLeft >>
       \/ /\ "categories" \in tables
          /\ rows # {}
          /\ loc' = [loc EXCEPT ![p].categoryId = (CHOOSE c \in rows : TRUE).id]
          /\ pc' = [pc EXCEPT ![p] = "insertJoke"]
          /\ UNCHANGED << resp, faultsLeft >>
       \/ /\ "categories" \notin tables
          /\ NameAddJokeThrew(p)
          /\ UNCHANGED << loc, faultsLeft >>
       \/ /\ CanFail
          /\ faultsLeft' = faultsLeft - 1
          /\ NameAddJokeThrew(p)
          /\ UNCHANGED loc
    /\ UNCHANGED << variant, mem, tables, categories, jokes, catSeq, jokeSeq, clock, req, created,
                    addsLeft >>

\* INSERT INTO categories (name) VALUES ($1) RETURNING id: the UNIQUE
\* constraint refuses a name that is there by now.
NameInsertCategory(p) ==
    /\ variant = "name"
    /\ pc[p] = "insertCategory"
    /\ trace' = [trace EXCEPT ![p] = Append(@, Event("INSERT category", "pool"))]
    /\ LET name == req[p].body.category.v IN
       \/ /\ NameSelectRows(name) = {}
          /\ categories' = categories \cup {[id |-> catSeq + 1, name |-> name, tx |-> 0]}
          /\ catSeq' = catSeq + 1
          /\ loc' = [loc EXCEPT ![p].categoryId = catSeq + 1,
                                ![p].createdCat = catSeq + 1]
          /\ pc' = [pc EXCEPT ![p] = "insertJoke"]
          /\ UNCHANGED << resp, faultsLeft >>
       \/ /\ NameSelectRows(name) # {}
          /\ catSeq' = catSeq + 1
          /\ NameAddJokeThrew(p)
          /\ UNCHANGED << categories, loc, faultsLeft >>
       \/ /\ CanFail
          /\ faultsLeft' = faultsLeft - 1
          /\ NameAddJokeThrew(p)
          /\ UNCHANGED << categories, catSeq, loc >>
    /\ UNCHANGED << variant, mem, tables, jokes, jokeSeq, clock, req, created, addsLeft >>

\* 2. INSERT INTO jokes (category_id, setup, delivery)
NameInsertJoke(p) ==
    /\ variant = "name"
    /\ pc[p] = "insertJoke"
    /\ trace' = [trace EXCEPT ![p] = Append(@, Event("INSERT joke", "pool"))]
    /\ \/ /\ jokes' = jokes \cup
                 {[ id |-> jokeSeq + 1,
                    setup |-> req[p].body.setup.v,
                    delivery |-> req[p].body.delivery.v,
                    category_id |-> loc[p].categoryId,
                    created_at |-> clock,
                    tx |-> 0 ]}
          /\ jokeSeq' = jokeSeq + 1
          /\ loc' = [loc EXCEPT ![p].jokeId = jokeSeq + 1,
                                ![p].createdJoke = jokeSeq + 1]
          /\ pc' = [pc EXCEPT ![p] = "returnList"]
          /\ UNCHANGED << resp, faultsLeft >>
       \/ /\ CanFail
          /\ faultsLeft' = faultsLeft - 1
          /\ NameAddJokeThrew(p)
          /\ UNCHANGED << jokes, jokeSeq, loc >>
    /\ UNCHANGED << variant, mem, tables, categories, catSeq, clock, req, created, addsLeft >>

\* 3. return getJokesByCategory(category)
NameReturnList(p) ==
    /\ variant = "name"
    /\ pc[p] = "returnList"
    /\ trace' = [trace EXCEPT ![p] = Append(@, Event("SELECT jokes", "pool"))]
    /\ pc' = [pc EXCEPT ![p] = "idle"]
    /\ \/ /\ resp' = [resp EXCEPT ![p] = NameListResult(req[p].body.category.v, Undefined)]
          /\ created' = created \cup
                 {[id |-> loc[p].jokeId, category_id |-> loc[p].categoryId]}
          /\ UNCHANGED faultsLeft
       \/ /\ CanFail
          /\ faultsLeft' = faultsLeft - 1
          /\ resp' = [resp EXCEPT ![p] = Threw("Could not fetch jokes from the database.")]
          /\ UNCHANGED created
    /\ UNCHANGED << variant, mem, tables, categories, jokes, catSeq, jokeSeq, clock, req, loc,
                    addsLeft >>

\* INSERT INTO categories (name) VALUES ('Funny Joke'), ('Lame Joke'), ('Tech Joke')
SchemaSeedNames ==
    << <<"F","u","n","n","y"," ","J","o","k","e">>,
       <<"L","a","m","e"," ","J","o","k","e">>,
       <<"T","e","c","h"," ","J","o","k","e">> >>

\* .. ON CONFLICT (name) DO NOTHING: a row whose name is stored is skipped,
\* after its id has been taken from the sequence.
SchemaSeedRows ==
    { [id |-> catSeq + i, name |-> SchemaSeedNames[i], tx |-> 0] :
          i \in {k \in DOMAIN SchemaSeedNames :
                     \A c \in categories : c.name # SchemaSeedNames[k]} }

\* sql/create_schema.sql, sent as one query: both CREATE TABLE IF NOT EXISTS
\* and the seeding INSERT take effect together or not at all.
RunSchema(p) ==
    /\ variant = "name"
    /\ Idle(p)
    /\ catSeq + Len(SchemaSeedNames) <= MaxCatSeq
    /\ req' = [req EXCEPT ![p] = [op |-> "initDb"]]
    /\ loc' = [loc EXCEPT ![p] = NoLoc]
    /\ trace' = [trace EXCEPT ![p] = << >>]
    /\ \/ /\ tables' = SchemaTables
          /\ categories' = categories \cup SchemaSeedRows
          /\ catSeq' = catSeq + Len(SchemaSeedNames)
          /\ resp' = [resp EXCEPT ![p] = Returned(Undefined)]
          /\ UNCHANGED faultsLeft
       \/ /\ CanFail
          /\ faultsLeft' = faultsLeft - 1
          /\ resp' = [resp EXCEPT ![p] = Threw("initDb")]
          /\ UNCHANGED << tables, categories, catSeq >>
    /\ UNCHANGED << variant, mem, jokes, jokeSeq, clock, pc, created, addsLeft >>

\* getJokesByCategory(category, limit), called on its own: its query
\* answers or fails, and the answer decides the result.
NameGetJokesByCategory(p, name, limit) ==
    /\ variant = "name"
    /\ Idle(p)
    /\ req' = [req EXCEPT ![p] = [op |-> "list", category |-> name, limit |-> limit]]
    /\ trace' = [trace EXCEPT ![p] = << Event("SELECT jokes", "pool") >>]
    /\ \/ /\ NameLimitAccepted(limit)
          /\ "jokes" \in tables
          /\ resp' = [resp EXCEPT ![p] = NameListResult(name, limit)]
          /\ loc' = [loc EXCEPT ![p] =
                 [NoLoc EXCEPT
                     !.limit = limit,
                     !.seenExists = NameSelectRows(name) # {},
                     !.seenJokes = IdsOf(NameJokesOfCategory(name)),
                     !.ackSeen = {k.id : k \in {c \in created :
                         \E r \in NameSelectRows(name) : r.id = c.category_id}},
                     !.listed = Ids(NameFoundJokes(name, limit))]]
          /\ UNCHANGED faultsLeft
       \/ /\ ~NameLimitAccepted(limit) \/ "jokes" \notin tables
          /\ resp' = [resp EXCEPT ![p] = Threw("Could not fetch jokes from the database.")]
          /\ loc' = [loc EXCEPT ![p] = [NoLoc EXCEPT !.limit = limit]]
          /\ UNCHANGED faultsLeft
       \/ /\ CanFail
          /\ faultsLeft' = faultsLeft - 1
          /\ resp' = [resp EXCEPT ![p] = Threw("Could not fetch jokes from the database.")]
          /\ loc' = [loc EXCEPT ![p] = [NoLoc EXCEPT !.limit = limit]]
    /\ UNCHANGED << variant, mem, tables, categories, jokes, catSeq, jokeSeq, clock, pc,
                    created, addsLeft >>

-----------------------------------------------------------------------------
(* unnamed/part_004: the mock controller over in-memory arrays; its        *)
(* handlers are synchronous, so each request is one step.                  *)

SeedCategoryData ==
    << [id |-> 1, name |-> <<"K","n","o","c","k","-","K","n","o","c","k">>],
       [id |-> 2, name |-> <<"P","r","o","g","r","a","m","m","i","n","g">>],
       [id |-> 3, name |-> <<"O","n","e"," ","L","i","n","e","r">>] >>

\* A seeded joke; its texts are kept as one piece each.
SeedJoke(id, categoryId, setup, delivery) ==
    [ id |-> id,
      category |-> SeedCategoryData[categoryId].name,
      setup |-> << setup >>,
      delivery |-> << delivery >>,
      categoryId |-> categoryId ]

SeedJokeData ==
    << SeedJoke(1, 1, "Knock, knock.", "Who's there? Nana. Nana who? Nana your business!"),
       SeedJoke(2, 2, "Why do Java developers wear glasses?", "Because they don't C#."),
       SeedJoke(3, 3, "I'm reading a book on anti-gravity.", "It's impossible to put down!"),
       SeedJoke(4, 2, "How many programmers does it take to change a light bulb?",
                      "None, that's a hardware problem."),
       SeedJoke(5, 1, "Knock, knock.", "Who's there? Lettuce. Lettuce who? Lettuce in!"),
       SeedJoke(6, 3, "I told my wife she was drawing her eyebrows too high.",
                      "She looked surprised.") >>

\* Array.prototype.find, given the indices whose elements pass the test:
\* the first such element, else undefined.
find(array, hits) ==
    IF hits = {} THEN Undefined
    ELSE array[CHOOSE i \in hits : \A k \in hits : i <= k]

\* Array.prototype.slice(0, end) for a positive end
slice(array, end) == SubSeq(array, 1, IF end < Len(array) THEN end ELSE Len(array))

\* The test with the stored name taken as it is.
SameNameAsLowerCased(c, category) == c.name = toLowerCase(category)

\* c => c.name.toLowerCase() === category.toLowerCase()
SameNameIgnoringCase(c, category) == toLowerCase(c.name) = toLowerCase(category)

\* categoryData.find(c => ..) of addJoke
MemFindCategory(category) ==
    find(categoryData,
         {i \in DOMAIN categoryData : SameNameIgnoringCase(categoryData[i], category)})

\* categoryData.find(c => c.id === categoryId)
MemFindCategoryById(categoryId) ==
    find(categoryData, {i \in DOMAIN categoryData : categoryData[i].id = categoryId})

\* part_004 addJoke
MemAddJoke(p, body) ==
    /\ variant = "mem"
    /\ Idle(p)
    /\ addsLeft > 0
    /\ req' = [req EXCEPT ![p] = [op |-> "addJoke", body |-> body]]
    /\ trace' = [trace EXCEPT ![p] = << >>]
    /\ IF Falsy(body.category) \/ Falsy(body.setup) \/ Falsy(body.delivery)
       THEN /\ resp' = [resp EXCEPT ![p] = Http(400,
                  [error |-> "Missing required fields: category, setup, and delivery must be provided."])]
            /\ loc' = [loc EXCEPT ![p] = NoLoc]
            /\ UNCHANGED << mem, created, addsLeft >>
       ELSE LET found == MemFindCategory(body.category.v)
                existingCategory ==
                    IF found = Undefined
                    THEN [id |-> nextCategoryId, name |-> body.category.v]
                    ELSE found
                newJoke ==
                    [ id |-> nextJokeId,
                      category |-> existingCategory.name,
                      setup |-> body.setup.v,
                      delivery |-> body.delivery.v,
                      categoryId |-> existingCategory.id ]
            IN /\ IF found = Undefined
                  THEN /\ nextCategoryId' = nextCategoryId + 1
                       /\ categoryData' = Append(categoryData, existingCategory)
                  ELSE UNCHANGED << nextCategoryId, categoryData >>
               /\ nextJokeId' = nextJokeId + 1
               /\ jokeData' = Append(jokeData, newJoke)
               /\ resp' = [resp EXCEPT ![p] = Http(201,
                      [ status |-> "success",
                        message |-> "Joke added successfully!",
                        data |-> newJoke ])]
               /\ loc' = [loc EXCEPT ![p] =
                      [NoLoc EXCEPT
                          !.categoryId = existingCategory.id,
                          !.jokeId = newJoke.id,
                          !.createdCat = IF found = Undefined THEN existingCategory.id ELSE 0,
                          !.createdJoke = newJoke.id,
                          !.seenExists = found # Undefined]]
               /\ created' = created \cup
                      {[id |-> newJoke.id, category_id |-> existingCategory.id]}
               /\ addsLeft' = addsLeft - 1
    /\ UNCHANGED << variant, tables, categories, jokes, catSeq, jokeSeq, clock, pc,
                    faultsLeft >>

\* part_004 getCategories: res.status(200).json({ status, data: categoryData });
\* nothing in its try block throws.
MemGetCategories(p) ==
    /\ variant = "mem"
    /\ Idle(p)
    /\ req' = [req EXCEPT ![p] = [op |-> "getCategories"]]
    /\ trace' = [trace EXCEPT ![p] = << >>]
    /\ loc' = [loc EXCEPT ![p] = NoLoc]
    /\ resp' = [resp EXCEPT ![p] =
           Http(200, [status |-> "success", data |-> categoryData])]
    /\ UNCHANGED << variant, mem, tables, categories, jokes, catSeq, jokeSeq, clock, pc,
                    created, addsLeft, faultsLeft >>

\* const limit = req.query.limit ? parseInt(req.query.limit, 10) : undefined
MemLimit(lim) == IF Falsy(lim) THEN Undefined ELSE parseInt(lim)

\* if (limit && !isNaN(limit) && limit > 0)
MemLimitApplies(limit) == ~Falsy(limit) /\ ~isNaN(limit) /\ limit.v > 0

\* jokeData.filter(joke => joke.categoryId === categoryId)
MemJokesOfCategory(categoryId) ==
    SelectSeq(jokeData, LAMBDA joke : joke.categoryId = categoryId)

\* part_004 getJokesByCategoryId
MemGetJokesByCategoryId(p, id, lim) ==
    /\ variant = "mem"
    /\ Idle(p)
    /\ req' = [req EXCEPT ![p] = [op |-> "list", id |-> id, limit |-> lim]]
    /\ trace' = [trace EXCEPT ![p] = << >>]
    /\ LET categoryId == parseInt(Str(id))
           limit == MemLimit(lim)
           category == MemFindCategoryById(categoryId.v)
           found == MemJokesOfCategory(categoryId.v)
           cut == IF MemLimitApplies(limit) THEN slice(found, limit.v) ELSE found
       IN IF isNaN(categoryId)
          THEN /\ resp' = [resp EXCEPT ![p] =
                      Http(400, [error |-> "Invalid category ID format"])]
               /\ loc' = [loc EXCEPT ![p] = NoLoc]
          ELSE /\ loc' = [loc EXCEPT ![p] =
                      [NoLoc EXCEPT
                          !.categoryId = categoryId.v,
                          !.limit = limit,
                          !.seenExists = category # Undefined,
                          !.seenJokes = {found[i].id : i \in DOMAIN found},
                          !.ackSeen = {k.id : k \in {c \in created :
                                                        c.category_id = categoryId.v}}]]
               /\ resp' = [resp EXCEPT ![p] =
                      IF category = Undefined
                      THEN Http(404, [error |-> "Category not found"])
                      ELSE IF Len(found) = 0
                      THEN Http(404, [error |-> "No jokes found for category ID",
                                      categoryId |-> categoryId.v])
                      ELSE Http(200, [ status |-> "success",
                                       category |-> category.name,
                                       count |-> Len(cut),
                                       data |-> cut ])]
    /\ UNCHANGED << variant, mem, tables, categories, jokes, catSeq, jokeSeq, clock, pc,
                    created, addsLeft, faultsLeft >>

\* getRandomJoke that takes the joke it draws out of jokeData.
MemGetRandomJokeDraws(p) ==
    /\ variant = "mem"
    /\ Idle(p)
    /\ req' = [req EXCEPT ![p] = [op |-> "random"]]
    /\ trace' = [trace EXCEPT ![p] = << >>]
    /\ loc' = [loc EXCEPT ![p] = NoLoc]
    /\ IF Len(jokeData) = 0
       THEN /\ resp' = [resp EXCEPT ![p] = Http(404, [error |-> "No jokes available"])]
            /\ UNCHANGED jokeData
       ELSE \E randomIndex \in 0 .. Len(jokeData) - 1 :
                /\ resp' = [resp EXCEPT ![p] =
                       Http(200, [status |-> "success", data |-> jokeData[randomIndex + 1]])]
                /\ jokeData' = SelectSeq(jokeData,
                                   LAMBDA joke : joke.id # jokeData[randomIndex + 1].id)
    /\ UNCHANGED << variant, categoryData, nextJokeId, nextCategoryId, tables, categories,
                    jokes, catSeq, jokeSeq, clock, pc, created, addsLeft, faultsLeft >>

\* part_004 getRandomJoke: Math.floor(Math.random() * jokeData.length) is
\* any index of jokeData.
MemGetRandomJoke(p) ==
    /\ variant = "mem"
    /\ Idle(p)
    /\ req' = [req EXCEPT ![p] = [op |-> "random"]]
    /\ trace' = [trace EXCEPT ![p] = << >>]
    /\ loc' = [loc EXCEPT ![p] = NoLoc]
    /\ IF Len(jokeData) = 0
       THEN resp' = [resp EXCEPT ![p] = Http(404, [error |-> "No jokes available"])]
       ELSE \E randomIndex \in 0 .. Len(jokeData) - 1 :
                resp' = [resp EXCEPT ![p] =
                    Http(200, [status |-> "success", data |-> jokeData[randomIndex + 1]])]
    /\ UNCHANGED << variant, mem, tables, categories, jokes, catSeq, jokeSeq, clock, pc,
                    created, addsLeft, faultsLeft >>

-----------------------------------------------------------------------------
(* models/jokeModel.js under the first controller of unnamed/part_003:     *)
(* jokes carry setup, punchline and category_id; every statement goes to   *)
(* pool.query and commits on its own.                                      *)

\* category_id INTEGER REFERENCES categories(id): the column may be NULL;
\* SERIAL ids start at 1, so 0 stands for NULL.
NULL == 0

\* The constraint REFERENCES categories(id) on a value to be stored.
ForeignKeyHolds(categoryId) ==
    categoryId = NULL \/ categoryId \in IdsOf(categories)

\* INSERT INTO categories (name) VALUES ('Programming'), ('Dad Jokes'), ('Science')
IdSeedNames ==
    << <<"P","r","o","g","r","a","m","m","i","n","g">>,
       <<"D","a","d"," ","J","o","k","e","s">>,
       <<"S","c","i","e","n","c","e">> >>

\* acc[row.name] = row.id
IdCategoryMap(rows) == [name \in {r.name : r \in rows} |->
                            (CHOOSE r \in rows : r.name = name).id]

\* categoryMap[name]: undefined for a missing key.
MapGet(map, key) == IF key \in DOMAIN map THEN Num(map[key]) ELSE Undefined

\* The driver sends undefined as NULL.
SqlParam(x) == IF x.t = "undefined" THEN NULL ELSE x.v

\* The parameters when the third key is not the seeded name.
IdSeedParamsOtherKey(categoryMap) ==
    << SqlParam(MapGet(categoryMap, IdSeedNames[1])),
       SqlParam(MapGet(categoryMap, IdSeedNames[2])),
       SqlParam(MapGet(categoryMap, toLowerCase(IdSeedNames[3]))) >>

\* [categoryMap['Programming'], categoryMap['Dad Jokes'], categoryMap['Science']]
IdSeedParams(categoryMap) ==
    << SqlParam(MapGet(categoryMap, IdSeedNames[1])),
       SqlParam(MapGet(categoryMap, IdSeedNames[2])),
       SqlParam(MapGet(categoryMap, IdSeedNames[3])) >>

\* The five seeded jokes with the parameter each refers to; the texts are
\* kept as one piece each.
IdSeedJokes ==
    << [setup |-> <<"Why do programmers prefer dark mode?">>,
        punchline |-> <<"Because light attracts bugs.">>, param |-> 1],
       [setup |-> <<"What do you call a fish with no eyes?">>,
        punchline |-> <<"Fsh.">>, param |-> 2],
       [setup |-> <<"Why don't scientists trust atoms?">>,
        punchline |-> <<"Because they make up everything.">>, param |-> 3],
       [setup |-> <<"How many programmers does it take to change a light bulb?">>,
        punchline |-> <<"None, that's a hardware problem.">>, param |-> 1],
       [setup |-> <<"I told my wife she was drawing her eyebrows too high.">>,
        punchline |-> <<"She looked surprised.">>, param |-> 2] >>

\* The rows of the seeding INSERT INTO jokes, ids taken from the sequence.
IdSeedJokeRows(params) ==
    { [ id |-> jokeSeq + i,
        setup |-> IdSeedJokes[i].setup,
        punchline |-> IdSeedJokes[i].punchline,
        category_id |-> params[IdSeedJokes[i].param],
        tx |-> 0 ] : i \in DOMAIN IdSeedJokes }

\* catch (error) { throw error } of initDb
IdInitThrew(p) ==
    /\ resp' = [resp EXCEPT ![p] = Threw("initDb")]
    /\ pc' = [pc EXCEPT ![p] = "idle"]

\* initDb() is called.
IdInitDb(p) ==
    /\ variant = "id"
    /\ Idle(p)
    /\ req' = [req EXCEPT ![p] = [op |-> "initDb"]]
    /\ loc' = [loc EXCEPT ![p] = NoLoc]
    /\ resp' = [resp EXCEPT ![p] = NoResp]
    /\ trace' = [trace EXCEPT ![p] = << >>]
    /\ pc' = [pc EXCEPT ![p] = "createCategories"]
    /\ UNCHANGED << variant, mem, tables, categories, jokes, catSeq, jokeSeq, clock,
                    created, addsLeft, faultsLeft >>

\* 1. CREATE TABLE IF NOT EXISTS categories
IdCreateCategories(p) ==
    /\ variant = "id"
    /\ pc[p] = "createCategories"
    /\ \/ /\ tables' = tables \cup {"categories"}
          /\ pc' = [pc EXCEPT ![p] = "createJokes"]
          /\ UNCHANGED << resp, faultsLeft >>
       \/ /\ CanFail
          /\ faultsLeft' = faultsLeft - 1
          /\ IdInitThrew(p)
          /\ UNCHANGED tables
    /\ UNCHANGED << variant, mem, categories, jokes, catSeq, jokeSeq, clock, req, loc,
                    trace, created, addsLeft >>

\* 2. CREATE TABLE IF NOT EXISTS jokes
IdCreateJokes(p) ==
    /\ variant = "id"
    /\ pc[p] = "createJokes"
    /\ \/ /\ "categories" \in tables
          /\ tables' = tables \cup {"jokes"}
          /\ pc' = [pc EXCEPT ![p] = "countCategories"]
          /\ UNCHANGED << resp, faultsLeft >>
       \/ /\ "categories" \notin tables
          /\ IdInitThrew(p)
          /\ UNCHANGED << tables, faultsLeft >>
       \/ /\ CanFail
          /\ faultsLeft' = faultsLeft - 1
          /\ IdInitThrew(p)
          /\ UNCHANGED tables
    /\ UNCHANGED << variant, mem, categories, jokes, catSeq, jokeSeq, clock, req, loc,
                    trace, created, addsLeft >>

\* 3. SELECT COUNT(*) FROM categories; seed when it is 0
IdCountCategories(p) ==
    /\ variant = "id"
    /\ pc[p] = "countCategories"
    /\ \/ /\ pc' = [pc EXCEPT ![p] =
                 IF Cardinality(categories) = 0 THEN "seedCategories" ELSE "countJokes"]
          /\ UNCHANGED << resp, faultsLeft >>
       \/ /\ CanFail
          /\ faultsLeft' = faultsLeft - 1
          /\ IdInitThrew(p)
    /\ UNCHANGED << variant, mem, tables, categories, jokes, catSeq, jokeSeq, clock,
                    req, loc, trace, created, addsLeft >>

\* INSERT INTO categories (name) VALUES (..), (..), (..): one statement; the
\* first row that meets UNIQUE(name) fails it, after taking its id.
IdSeedCategories(p) ==
    /\ variant = "id"
    /\ pc[p] = "seedCategories"
    /\ \/ /\ \A i \in DOMAIN IdSeedNames : \A c \in categories : c.name # IdSeedNames[i]
          /\ categories' = categories \cup
                 {[id |-> catSeq + i, name |-> IdSeedNames[i], tx |-> 0] :
                      i \in DOMAIN IdSeedNames}
          /\ catSeq' = catSeq + Len(IdSeedNames)
          /\ pc' = [pc EXCEPT ![p] = "countJokes"]
          /\ UNCHANGED << resp, faultsLeft >>
       \/ /\ \E i \in DOMAIN IdSeedNames : \E c \in categories : c.name = IdSeedNames[i]
          /\ catSeq' = catSeq +
                 (CHOOSE i \in DOMAIN IdSeedNames :
                      /\ \E c \in categories : c.name = IdSeedNames[i]
                      /\ \A k \in 1 .. i - 1 : \A c \in categories : c.name # IdSeedNames[k])
          /\ IdInitThrew(p)
          /\ UNCHANGED << categories, faultsLeft >>
       \/ /\ CanFail
          /\ faultsLeft' = faultsLeft - 1
          /\ IdInitThrew(p)
          /\ UNCHANGED << categories, catSeq >>
    /\ UNCHANGED << variant, mem, tables, jokes, jokeSeq, clock, req, loc, trace,
                    created, addsLeft >>

\* 4. SELECT COUNT(*) FROM jokes; seed when it is 0
IdCountJokes(p) ==
    /\ variant = "id"
    /\ pc[p] = "countJokes"
    /\ \/ /\ IF Cardinality(jokes) = 0
             THEN /\ pc' = [pc EXCEPT ![p] = "selectCategories"]
                  /\ UNCHANGED resp
             ELSE /\ pc' = [pc EXCEPT ![p] = "idle"]
                  /\ resp' = [resp EXCEPT ![p] = Returned(Undefined)]
          /\ UNCHANGED faultsLeft
       \/ /\ CanFail
          /\ faultsLeft' = faultsLeft - 1
          /\ IdInitThrew(p)
    /\ UNCHANGED << variant, mem, tables, categories, jokes, catSeq, jokeSeq, clock,
                    req, loc, trace, created, addsLeft >>

\* SELECT id, name FROM categories WHERE name IN (..): the category map
IdSelectCategories(p) ==
    /\ variant = "id"
    /\ pc[p] = "selectCategories"
    /\ \/ /\ loc' = [loc EXCEPT ![p].categoryMap =
                 IdCategoryMap({c \in categories :
                     \E i \in DOMAIN IdSeedNames : c.name = IdSeedNames[i]})]
          /\ pc' = [pc EXCEPT ![p] = "seedJokes"]
          /\ UNCHANGED << resp, faultsLeft >>
       \/ /\ CanFail
          /\ faultsLeft' = faultsLeft - 1
          /\ IdInitThrew(p)
          /\ UNCHANGED loc
    /\ UNCHANGED << variant, mem, tables, categories, jokes, catSeq, jokeSeq, clock,
                    req, trace, created, addsLeft >>

\* INSERT INTO jokes (setup, punchline, category_id) VALUES five rows
IdSeedJokesInsert(p) ==
    /\ variant = "id"
    /\ pc[p] = "seedJokes"
    /\ pc' = [pc EXCEPT ![p] = "idle"]
    /\ LET params == IdSeedParams(loc[p].categoryMap) IN
       \/ /\ \A i \in DOMAIN params : ForeignKeyHolds(params[i])
          /\ jokes' = jokes \cup IdSeedJokeRows(params)
          /\ jokeSeq' = jokeSeq + Len(IdSeedJokes)
          /\ resp' = [resp EXCEPT ![p] = Returned(Undefined)]
          /\ UNCHANGED faultsLeft
       \/ /\ \E i \in DOMAIN params : ~ForeignKeyHolds(params[i])
          /\ jokeSeq' = jokeSeq + 1
          /\ resp' = [resp EXCEPT ![p] = Threw("initDb")]
          /\ UNCHANGED << jokes, faultsLeft >>
       \/ /\ CanFail
          /\ faultsLeft' = faultsLeft - 1
          /\ resp' = [resp EXCEPT ![p] = Threw("initDb")]
          /\ UNCHANGED << jokes, jokeSeq >>
    /\ UNCHANGED << variant, mem, tables, categories, catSeq, clock, req, loc, trace,
                    created, addsLeft >>

\* Bodies of the add-joke and update requests of part_003.
IdBodies ==
    { [setup |-> Str(<<" ", "s">>), punchline |-> Str(<<"d">>), categoryId |-> Str(<<"2">>)],
      [setup |-> Str(<<"s">>), punchline |-> Str(<<"d">>), categoryId |-> Str(<<"9">>)],
      [setup |-> Undefined, punchline |-> Str(<<"d">>), categoryId |-> Str(<<"2">>)] }

\* A body whose setup is a number.
IdNumberBodies ==
    { [setup |-> Num(7), punchline |-> Str(<<"d">>), categoryId |-> Str(<<"2">>)] }

\* Values of the :id path parameter of a joke.
JokeIdParams == { <<"3">> }

\* The :id path parameters that name the jokes initDb seeds.
SeedJokeIdParams == { <<"1">>, <<"2">>, <<"3">>, <<"4">>, <<"5">> }

\* Values of ?categoryId= (undefined: not given).
CategoryIdQueries == { Undefined, Str(<<"3">>), Str(<<"9">>), Str(<<"x">>) }

\* handleError(res, error, message, 500)
handleError(p, message) ==
    /\ resp' = [resp EXCEPT ![p] = Http(500, [error |-> message])]
    /\ pc' = [pc EXCEPT ![p] = "idle"]

\* if (!setup || !punchline || !categoryId)
IdMissingFields(body) ==
    Falsy(body.setup) \/ Falsy(body.punchline) \/ Falsy(body.categoryId)

\* setup.trim(), punchline.trim(): a value that is not a string has no trim
\* method, and the call throws a TypeError inside the try block.
IdTrimThrows(body) == body.setup.t # "string" \/ body.punchline.t # "string"

\* if (isNaN(id) || id <= 0)
IdInvalid(id) == isNaN(id) \/ id.v <= 0

\* RETURNING id, setup, punchline, category_id AS "categoryId"
IdJokeRow(j) ==
    [id |-> j.id, setup |-> j.setup, punchline |-> j.punchline, categoryId |-> j.category_id]

\* part_003 addJoke up to its await.
IdAddJokeRequest(p, body) ==
    /\ variant = "id"
    /\ Idle(p)
    /\ addsLeft > 0
    /\ req' = [req EXCEPT ![p] = [op |-> "addJoke", body |-> body]]
    /\ trace' = [trace EXCEPT ![p] = << >>]
    /\ IF IdMissingFields(body)
       THEN /\ resp' = [resp EXCEPT ![p] = Http(400,
                  [error |-> "Missing required fields: setup, punchline, or categoryId."])]
            /\ loc' = [loc EXCEPT ![p] = NoLoc]
            /\ UNCHANGED << pc, addsLeft >>
       ELSE IF IdInvalid(parseInt(body.categoryId))
       THEN /\ resp' = [resp EXCEPT ![p] = Http(400,
                  [error |-> "Invalid category ID format."])]
            /\ loc' = [loc EXCEPT ![p] = NoLoc]
            /\ UNCHANGED << pc, addsLeft >>
       ELSE IF IdTrimThrows(body)
       THEN /\ handleError(p, "Failed to add the new joke.")
            /\ loc' = [loc EXCEPT ![p] = NoLoc]
            /\ UNCHANGED addsLeft
       ELSE /\ resp' = [resp EXCEPT ![p] = NoResp]
            /\ loc' = [loc EXCEPT ![p] =
                   [NoLoc EXCEPT
                       !.categoryId = parseInt(body.categoryId).v,
                       !.seenExists = parseInt(body.categoryId).v \in IdsOf(categories)]]
            /\ pc' = [pc EXCEPT ![p] = "addCheckCategory"]
            /\ addsLeft' = addsLeft - 1
    /\ UNCHANGED << variant, mem, tables, categories, jokes, catSeq, jokeSeq, clock,
                    created, faultsLeft >>

\* models/jokeModel.js addJoke, 1: SELECT id FROM categories WHERE id = $1
IdAddCheckCategory(p) ==
    /\ variant = "id"
    /\ pc[p] = "addCheckCategory"
    /\ trace' = [trace EXCEPT ![p] = Append(@, Event("SELECT", "pool"))]
    /\ \/ /\ "categories" \in tables
          /\ loc[p].categoryId \in IdsOf(categories)
          /\ pc' = [pc EXCEPT ![p] = "addInsertJoke"]
          /\ UNCHANGED << resp, faultsLeft >>
       \/ /\ "categories" \notin tables \/ loc[p].categoryId \notin IdsOf(categories)
          /\ handleError(p, "Failed to add the new joke.")
          /\ UNCHANGED faultsLeft
       \/ /\ CanFail
          /\ faultsLeft' = faultsLeft - 1
          /\ handleError(p, "Failed to add the new joke.")
    /\ UNCHANGED << variant, mem, tables, categories, jokes, catSeq, jokeSeq, clock,
                    req, loc, created, addsLeft >>

\* models/jokeModel.js addJoke, 2: INSERT INTO jokes .. RETURNING
IdAddInsertJoke(p) ==
    /\ variant = "id"
    /\ pc[p] = "addInsertJoke"
    /\ trace' = [trace EXCEPT ![p] = Append(@, Event("INSERT joke", "pool"))]
    /\ LET row == [ id |-> jokeSeq + 1,
                    setup |-> trim(req[p].body.setup.v),
                    punchline |-> trim(req[p].body.punchline.v),
                    category_id |-> loc[p].categoryId,
                    tx |-> 0 ]
       IN
       \/ /\ "jokes" \in tables
          /\ ForeignKeyHolds(row.category_id)
          /\ jokes' = jokes \cup {row}
          /\ jokeSeq' = jokeSeq + 1
          /\ loc' = [loc EXCEPT ![p].jokeId = row.id, ![p].createdJoke = row.id]
          /\ resp' = [resp EXCEPT ![p] = Http(201, IdJokeRow(row))]
          /\ pc' = [pc EXCEPT ![p] = "idle"]
          /\ created' = created \cup {[id |-> row.id, category_id |-> row.category_id]}
          /\ UNCHANGED faultsLeft
       \/ /\ "jokes" \in tables
          /\ ~ForeignKeyHolds(row.category_id)
          /\ jokeSeq' = jokeSeq + 1
          /\ handleError(p, "Failed to add the new joke.")
          /\ UNCHANGED << jokes, loc, created, faultsLeft >>
       \/ /\ "jokes" \notin tables
          /\ handleError(p, "Failed to add the new joke.")
          /\ UNCHANGED << jokes, jokeSeq, loc, created, faultsLeft >>
       \/ /\ CanFail
          /\ faultsLeft' = faultsLeft - 1
          /\ handleError(p, "Failed to add the new joke.")
          /\ UNCHANGED << jokes, jokeSeq, loc, created >>
    /\ UNCHANGED << variant, mem, tables, categories, catSeq, clock, req, addsLeft >>

\* part_003 updateJoke up to its await.
IdUpdateJokeRequest(p, id, body) ==
    /\ variant = "id"
    /\ Idle(p)
    /\ req' = [req EXCEPT ![p] = [op |-> "updateJoke", id |-> id, body |-> body]]
    /\ trace' = [trace EXCEPT ![p] = << >>]
    /\ IF IdInvalid(parseInt(Str(id)))
       THEN /\ resp' = [resp EXCEPT ![p] = Http(400, [error |-> "Invalid joke ID in path."])]
            /\ loc' = [loc EXCEPT ![p] = NoLoc]
            /\ UNCHANGED pc
       ELSE IF IdMissingFields(body)
       THEN /\ resp' = [resp EXCEPT ![p] = Http(400,
                  [error |-> "Missing required fields: setup, punchline, or categoryId."])]
            /\ loc' = [loc EXCEPT ![p] = NoLoc]
            /\ UNCHANGED pc
       ELSE IF IdInvalid(parseInt(body.categoryId))
       THEN /\ resp' = [resp EXCEPT ![p] = Http(400,
                  [error |-> "Invalid category ID in body."])]
            /\ loc' = [loc EXCEPT ![p] = NoLoc]
            /\ UNCHANGED pc
       ELSE IF IdTrimThrows(body)
       THEN /\ handleError(p, "Failed to update joke.")
            /\ loc' = [loc EXCEPT ![p] = NoLoc]
       ELSE /\ resp' = [resp EXCEPT ![p] = NoResp]
            /\ loc' = [loc EXCEPT ![p] =
                   [NoLoc EXCEPT
                       !.jokeId = parseInt(Str(id)).v,
                       !.categoryId = parseInt(body.categoryId).v]]
            /\ pc' = [pc EXCEPT ![p] = "updateCheckCategory"]
    /\ UNCHANGED << variant, mem, tables, categories, jokes, catSeq, jokeSeq, clock,
                    created, addsLeft, faultsLeft >>

\* models/jokeModel.js updateJoke, 1: SELECT id FROM categories WHERE id = $1
IdUpdateCheckCategory(p) ==
    /\ variant = "id"
    /\ pc[p] = "updateCheckCategory"
    /\ trace' = [trace EXCEPT ![p] = Append(@, Event("SELECT", "pool"))]
    /\ \/ /\ "categories" \in tables
          /\ loc[p].categoryId \in IdsOf(categories)
          /\ pc' = [pc EXCEPT ![p] = "updateJoke"]
          /\ UNCHANGED << resp, faultsLeft >>
       \/ /\ "categories" \notin tables \/ loc[p].categoryId \notin IdsOf(categories)
          /\ handleError(p, "Failed to update joke.")
          /\ UNCHANGED faultsLeft
       \/ /\ CanFail
          /\ faultsLeft' = faultsLeft - 1
          /\ handleError(p, "Failed to update joke.")
    /\ UNCHANGED << variant, mem, tables, categories, jokes, catSeq, jokeSeq, clock,
                    req, loc, created, addsLeft >>

\* models/jokeModel.js updateJoke, 2: UPDATE jokes SET .. WHERE id = $4
IdUpdateJoke(p) ==
    /\ variant = "id"
    /\ pc[p] = "updateJoke"
    /\ trace' = [trace EXCEPT ![p] = Append(@, Event("UPDATE joke", "pool"))]
    /\ LET row == [ id |-> loc[p].jokeId,
                    setup |-> trim(req[p].body.setup.v),
                    punchline |-> trim(req[p].body.punchline.v),
                    category_id |-> loc[p].categoryId,
                    tx |-> 0 ]
           old == {j \in jokes : j.id = loc[p].jokeId}
       IN
       \/ /\ "jokes" \in tables
          /\ old # {}
          /\ ForeignKeyHolds(row.category_id)
          /\ jokes' = (jokes \ old) \cup {row}
          /\ resp' = [resp EXCEPT ![p] = Http(200, IdJokeRow(row))]
          /\ pc' = [pc EXCEPT ![p] = "idle"]
          /\ UNCHANGED faultsLeft
       \/ /\ "jokes" \in tables
          /\ old = {}
          /\ resp' = [resp EXCEPT ![p] = Http(404, [error |-> "Joke not found."])]
          /\ pc' = [pc EXCEPT ![p] = "idle"]
          /\ UNCHANGED << jokes, faultsLeft >>
       \/ /\ \/ "jokes" \notin tables
             \/ (old # {} /\ ~ForeignKeyHolds(row.category_id))
          /\ handleError(p, "Failed to update joke.")
          /\ UNCHANGED << jokes, faultsLeft >>
       \/ /\ CanFail
          /\ faultsLeft' = faultsLeft - 1
          /\ handleError(p, "Failed to update joke.")
          /\ UNCHANGED jokes
    /\ UNCHANGED << variant, mem, tables, categories, catSeq, jokeSeq, clock, req, loc,
                    created, addsLeft >>

\* part_003 deleteJoke up to its await.
IdDeleteJokeRequest(p, id) ==
    /\ variant = "id"
    /\ Idle(p)
    /\ req' = [req EXCEPT ![p] = [op |-> "deleteJoke", id |-> id]]
    /\ trace' = [trace EXCEPT ![p] = << >>]
    /\ IF IdInvalid(parseInt(Str(id)))
       THEN /\ resp' = [resp EXCEPT ![p] = Http(400, [error |-> "Invalid joke ID in path."])]
            /\ loc' = [loc EXCEPT ![p] = NoLoc]
            /\ UNCHANGED pc
       ELSE /\ resp' = [resp EXCEPT ![p] = NoResp]
            /\ loc' = [loc EXCEPT ![p] = [NoLoc EXCEPT !.jokeId = parseInt(Str(id)).v]]
            /\ pc' = [pc EXCEPT ![p] = "deleteJoke"]
    /\ UNCHANGED << variant, mem, tables, categories, jokes, catSeq, jokeSeq, clock,
                    created, addsLeft, faultsLeft >>

\* As DeletedRows, had the statement been DELETE FROM jokes WHERE id <= $1.
DeletedRowsUpTo(id) == {j \in jokes : j.id <= id}

\* DELETE FROM jokes WHERE id = $1: the rows the statement removes.
DeletedRows(id) == {j \in jokes : j.id = id}

\* models/jokeModel.js deleteJoke: DELETE FROM jokes WHERE id = $1
IdDeleteJoke(p) ==
    /\ variant = "id"
    /\ pc[p] = "deleteJoke"
    /\ trace' = [trace EXCEPT ![p] = Append(@, Event("DELETE joke", "pool"))]
    /\ pc' = [pc EXCEPT ![p] = "idle"]
    /\ LET old == DeletedRows(loc[p].jokeId) IN
       \/ /\ "jokes" \in tables
          /\ jokes' = jokes \ old
          /\ created' = {c \in created : c.id # loc[p].jokeId}
          /\ resp' = [resp EXCEPT ![p] =
                 IF old # {} THEN Http(204, << >>)
                 ELSE Http(404, [error |-> "Joke not found."])]
          /\ UNCHANGED faultsLeft
       \/ /\ "jokes" \notin tables
          /\ resp' = [resp EXCEPT ![p] = Http(500, [error |-> "Failed to delete joke."])]
          /\ UNCHANGED << jokes, created, faultsLeft >>
       \/ /\ CanFail
          /\ faultsLeft' = faultsLeft - 1
          /\ resp' = [resp EXCEPT ![p] = Http(500, [error |-> "Failed to delete joke."])]
          /\ UNCHANGED << jokes, created >>
    /\ UNCHANGED << variant, mem, tables, categories, catSeq, jokeSeq, clock, req, loc,
                    addsLeft >>

\* part_003 getJokes up to its await.
IdGetJokesRequest(p, categoryId) ==
    /\ variant = "id"
    /\ Idle(p)
    /\ trace' = [trace EXCEPT ![p] = << >>]
    /\ IF ~Falsy(categoryId)
       THEN /\ req' = [req EXCEPT ![p] =
                   [op |-> "list", categoryId |-> categoryId, limit |-> Undefined]]
            /\ IF IdInvalid(parseInt(categoryId))
               THEN /\ resp' = [resp EXCEPT ![p] = Http(400,
                          [error |-> "Invalid category ID format."])]
                    /\ loc' = [loc EXCEPT ![p] = NoLoc]
                    /\ UNCHANGED pc
               ELSE /\ resp' = [resp EXCEPT ![p] = NoResp]
                    /\ loc' = [loc EXCEPT ![p] =
                           [NoLoc EXCEPT !.categoryId = parseInt(categoryId).v]]
                    /\ pc' = [pc EXCEPT ![p] = "getJokesByCategoryId"]
       ELSE /\ req' = [req EXCEPT ![p] = [op |-> "random"]]
            /\ resp' = [resp EXCEPT ![p] = NoResp]
            /\ loc' = [loc EXCEPT ![p] = NoLoc]
            /\ pc' = [pc EXCEPT ![p] = "getRandomJoke"]
    /\ UNCHANGED << variant, mem, tables, categories, jokes, catSeq, jokeSeq, clock,
                    created, addsLeft, faultsLeft >>

\* SELECT .. FROM jokes WHERE category_id = $1 ORDER BY id
IdJokesOfCategory(categoryId) ==
    LET found == OrderById({j \in jokes : j.category_id = categoryId})
    IN [i \in 1 .. Len(found) |-> IdJokeRow(found[i])]

\* getJokes with a category id, once models/jokeModel.js getJokesByCategoryId
\* has answered or thrown.
IdGetJokesByCategoryId(p) ==
    /\ variant = "id"
    /\ pc[p] = "getJokesByCategoryId"
    /\ pc' = [pc EXCEPT ![p] = "idle"]
    /\ loc' = [loc EXCEPT ![p] = Snapshot(@, loc[p].categoryId)]
    /\ \/ /\ "jokes" \in tables
          /\ resp' = [resp EXCEPT ![p] = Http(200, IdJokesOfCategory(loc[p].categoryId))]
          /\ UNCHANGED faultsLeft
       \/ /\ "jokes" \notin tables
          /\ resp' = [resp EXCEPT ![p] = Http(500, [error |-> "Failed to retrieve jokes."])]
          /\ UNCHANGED faultsLeft
       \/ /\ CanFail
          /\ faultsLeft' = faultsLeft - 1
          /\ resp' = [resp EXCEPT ![p] = Http(500, [error |-> "Failed to retrieve jokes."])]
    /\ UNCHANGED << variant, mem, tables, categories, jokes, catSeq, jokeSeq, clock,
                    req, trace, created, addsLeft >>

\* getJokes without a category id: ORDER BY RANDOM() LIMIT 1 picks any joke.
IdGetRandomJoke(p) ==
    /\ variant = "id"
    /\ pc[p] = "getRandomJoke"
    /\ pc' = [pc EXCEPT ![p] = "idle"]
    /\ \/ /\ "jokes" \in tables
          /\ \/ \E j \in jokes : resp' = [resp EXCEPT ![p] = Http(200, << IdJokeRow(j) >>)]
             \/ /\ jokes = {}
                /\ resp' = [resp EXCEPT ![p] = Http(200, << >>)]
          /\ UNCHANGED faultsLeft
       \/ /\ "jokes" \notin tables
          /\ resp' = [resp EXCEPT ![p] = Http(500, [error |-> "Failed to retrieve jokes."])]
          /\ UNCHANGED faultsLeft
       \/ /\ CanFail
          /\ faultsLeft' = faultsLeft - 1
          /\ resp' = [resp EXCEPT ![p] = Http(500, [error |-> "Failed to retrieve jokes."])]
    /\ UNCHANGED << variant, mem, tables, categories, jokes, catSeq, jokeSeq, clock,
                    req, loc, trace, created, addsLeft >>

-----------------------------------------------------------------------------
(* server.js: the router of unnamed/part_010 over the controller of        *)
(* routes/jokeRouter.js (lines 43 to 115), whose getCategories asks        *)
(* models/jokeModel.js and whose other handlers are placeholders.  A path  *)
(* under the mount point is the sequence of its segments.                  *)

\* The routes in the order part_010 registers them.
Routes ==
    << [method |-> "GET", path |-> << <<"c","a","t","e","g","o","r","i","e","s">> >>,
        handler |-> "getCategories"],
       [method |-> "GET", path |-> << <<":","i","d">> >>, handler |-> "getJokeById"],
       [method |-> "GET", path |-> << <<"r","a","n","d","o","m">> >>,
        handler |-> "getRandomJoke"],
       [method |-> "POST", path |-> << >>, handler |-> "createJoke"],
       [method |-> "PUT", path |-> << <<":","i","d">> >>, handler |-> "updateJoke"],
       [method |-> "DELETE", path |-> << <<":","i","d">> >>, handler |-> "deleteJoke"] >>

\* A segment of a route path that starts with a colon is a parameter and
\* matches any segment that is not empty.
SegmentMatches(pattern, segment) ==
    IF pattern # << >> /\ Head(pattern) = ":" THEN segment # << >>
    ELSE pattern = segment

RouteMatches(route, method, path) ==
    /\ route.method = method
    /\ Len(route.path) = Len(path)
    /\ \A i \in DOMAIN path : SegmentMatches(route.path[i], path[i])

\* The router hands a request to the first registered route that matches;
\* router.use(..) at the end takes what no route matched.
Dispatch(method, path) ==
    LET hits == {i \in DOMAIN Routes : RouteMatches(Routes[i], method, path)}
    IN IF hits = {} THEN "notFound"
       ELSE Routes[CHOOSE i \in hits : \A k \in hits : i <= k].handler

\* The text of the :id parameter of the matched route (empty: none).
RouteParam(path) == IF Len(path) = 1 THEN path[1] ELSE << >>

\* Requests sent to the mounted router.
Methods == {"GET", "POST", "PUT", "DELETE"}

Paths ==
    { << >>,
      << <<"c","a","t","e","g","o","r","i","e","s">> >>,
      << <<"r","a","n","d","o","m">> >>,
      << <<"9">> >>,
      << <<"c","a","t","e","g","o","r","i","e","s">>, <<"9">> >> }

\* app.use((err, req, res, next) => ..) of server.js, lines 59 to 66.
ErrorHandler(p) ==
    /\ resp' = [resp EXCEPT ![p] =
           Http(500, [error |-> "Something went wrong! Internal Server Error."])]
    /\ pc' = [pc EXCEPT ![p] = "idle"]

\* A request reaches the router: the placeholders answer 501 at once,
\* getCategories awaits the model.
RouterRequest(p, method, path) ==
    /\ variant = "id"
    /\ Idle(p)
    /\ LET handler == Dispatch(method, path) IN
       /\ req' = [req EXCEPT ![p] =
              [op |-> handler, method |-> method, path |-> path,
               id |-> RouteParam(path)]]
       /\ IF handler = "getCategories"
          THEN /\ resp' = [resp EXCEPT ![p] = NoResp]
               /\ pc' = [pc EXCEPT ![p] = "getCategories"]
          ELSE IF handler = "notFound"
          THEN /\ resp' = [resp EXCEPT ![p] =
                      Http(404, [error |-> "Jokebook resource not found"])]
               /\ UNCHANGED pc
          ELSE /\ resp' = [resp EXCEPT ![p] =
                      Http(501, [error |-> << "Not Implemented: ", handler >>])]
               /\ UNCHANGED pc
    /\ loc' = [loc EXCEPT ![p] = NoLoc]
    /\ trace' = [trace EXCEPT ![p] = << >>]
    /\ UNCHANGED << variant, mem, tables, categories, jokes, catSeq, jokeSeq, clock,
                    created, addsLeft, faultsLeft >>

\* getCategories of routes/jokeRouter.js after models/jokeModel.js
\* getCategories answered (SELECT id, name FROM categories ORDER BY name;
\* the rows are kept as a set) or threw: next(error).
RouterGetCategories(p) ==
    /\ variant = "id"
    /\ pc[p] = "getCategories"
    /\ trace' = [trace EXCEPT ![p] = Append(@, Event("SELECT", "pool"))]
    /\ \/ /\ "categories" \in tables
          /\ resp' = [resp EXCEPT ![p] =
                 Http(200, {[id |-> c.id, name |-> c.name] : c \in categories})]
          /\ pc' = [pc EXCEPT ![p] = "idle"]
          /\ UNCHANGED faultsLeft
       \/ /\ "categories" \notin tables
          /\ ErrorHandler(p)
          /\ UNCHANGED faultsLeft
       \/ /\ CanFail
          /\ faultsLeft' = faultsLeft - 1
          /\ ErrorHandler(p)
    /\ UNCHANGED << variant, mem, tables, categories, jokes, catSeq, jokeSeq, clock,
                    req, loc, created, addsLeft >>

\* A request under /jokebook that no route of the router of
\* routes/jokeRouter.js (lines 14 to 32) matches.  That router ends without a
\* router.use(..), and unnamed/part_001 mounts nothing after it that takes
\* the request (its error middleware runs on errors alone), so Express
\* answers it itself: 404 with the HTML page "Cannot METHOD path".
TxUnmatchedRequest(p, method, path) ==
    LET routes ==
            << [method |-> "GET", path |-> << <<"c","a","t","e","g","o","r","i","e","s">> >>,
                handler |-> "getCategories"],
               [method |-> "GET",
                path |-> << <<"c","a","t","e","g","o","r","i","e","s">>, <<":","i","d">> >>,
                handler |-> "getJokesByCategoryId"],
               [method |-> "POST", path |-> << <<"j","o","k","e","s">> >>,
                handler |-> "addJoke"] >>
    IN /\ variant = "tx"
       /\ Idle(p)
       /\ \A i \in DOMAIN routes : ~RouteMatches(routes[i], method, path)
       /\ req' = [req EXCEPT ![p] = [op |-> "notFound", method |-> method, path |-> path]]
       /\ resp' = [resp EXCEPT ![p] =
              Http(404, [contentType |-> "text/html",
                         text |-> << "Cannot ", method, " /jokebook", path >>])]
       /\ loc' = [loc EXCEPT ![p] = NoLoc]
       /\ trace' = [trace EXCEPT ![p] = << >>]
       /\ UNCHANGED << variant, mem, tables, categories, jokes, catSeq, jokeSeq, clock,
                       pc, created, addsLeft, faultsLeft >>

-----------------------------------------------------------------------------
(* unnamed/part_009 under controllers/jokeController.js: one table jokes   *)
(* with the columns id, joke and category.  The model rethrows the error   *)
(* of the store, the controller hands it to next(error), and the error     *)
(* middleware of unnamed/part_001 answers.                                 *)

\* Errors the store raises; the driver's errors carry no status property.
StoreErrors ==
    { [message |-> "Connection terminated unexpectedly"],
      [message |-> "relation \"jokes\" does not exist"] }

\* Requests to the three handlers of controllers/jokeController.js.
FlatRequests ==
    { [op |-> "getAllCategories"],
      [op |-> "getJokesByCategory", category |-> Str(<<"P">>)],
      [op |-> "addJoke", body |-> [joke |-> Str(<<"j">>), category |-> Str(<<"P">>)]],
      [op |-> "addJoke", body |-> [joke |-> Str(<< >>), category |-> Str(<<"P">>)]] }

\* As ErrorMiddleware, had it sent the message of the error.
ErrorMiddlewareOfMessage(p, err) ==
    /\ resp' = [resp EXCEPT ![p] =
           Http(IF "status" \in DOMAIN err /\ err.status # 0 THEN err.status ELSE 500,
                [contentType |-> "text/html", text |-> err.message])]
    /\ pc' = [pc EXCEPT ![p] = "idle"]

\* if (!error.status) error.status = 500; next(error), and then
\* res.status(err.status || 500).send('Something broke! Internal Server Error.'):
\* send() of a string answers with that text as text/html.
ErrorMiddleware(p, err) ==
    /\ resp' = [resp EXCEPT ![p] =
           Http(IF "status" \in DOMAIN err /\ err.status # 0 THEN err.status ELSE 500,
                [contentType |-> "text/html",
                 text |-> "Something broke! Internal Server Error."])]
    /\ pc' = [pc EXCEPT ![p] = "idle"]

\* A handler up to its await.
FlatRequest(p, r) ==
    /\ variant = "flat"
    /\ Idle(p)
    /\ req' = [req EXCEPT ![p] = r]
    /\ trace' = [trace EXCEPT ![p] = << >>]
    /\ IF r.op = "getJokesByCategory" /\ Falsy(r.category)
       THEN /\ resp' = [resp EXCEPT ![p] =
                   Http(400, [error |-> "Category parameter is required."])]
            /\ loc' = [loc EXCEPT ![p] = [NoLoc EXCEPT !.terminal = << "res" >>]]
            /\ UNCHANGED << pc, addsLeft >>
       ELSE IF r.op = "addJoke" /\ (Falsy(r.body.joke) \/ Falsy(r.body.category))
       THEN /\ resp' = [resp EXCEPT ![p] =
                   Http(400, [error |-> "Joke and category fields are required."])]
            /\ loc' = [loc EXCEPT ![p] = [NoLoc EXCEPT !.terminal = << "res" >>]]
            /\ UNCHANGED << pc, addsLeft >>
       ELSE /\ r.op = "addJoke" => addsLeft > 0
            /\ addsLeft' = IF r.op = "addJoke" THEN addsLeft - 1 ELSE addsLeft
            /\ resp' = [resp EXCEPT ![p] = NoResp]
            /\ loc' = [loc EXCEPT ![p] = NoLoc]
            /\ pc' = [pc EXCEPT ![p] = r.op]
    /\ UNCHANGED << variant, mem, tables, categories, jokes, catSeq, jokeSeq, clock,
                    created, faultsLeft >>

\* As FlatThrew, had the catch block answered 500 itself before it called
\* next(error).
FlatThrewAnsweredToo(p) ==
    /\ CanFail
    /\ faultsLeft' = faultsLeft - 1
    /\ \E err \in StoreErrors :
           /\ loc' = [loc EXCEPT ![p].error = err,
                                 ![p].terminal = Append(Append(@, "res"), "next")]
           /\ ErrorMiddleware(p, err)

\* The awaited statement fails: the model rethrows, the controller calls
\* next(error).
FlatThrew(p) ==
    /\ CanFail
    /\ faultsLeft' = faultsLeft - 1
    /\ \E err \in StoreErrors :
           /\ loc' = [loc EXCEPT ![p].error = err,
                                 ![p].terminal = Append(@, "next")]
           /\ ErrorMiddleware(p, err)

\* getAllCategories: SELECT DISTINCT category FROM jokes; res.json(..)
FlatGetAllCategories(p) ==
    /\ variant = "flat"
    /\ pc[p] = "getAllCategories"
    /\ trace' = [trace EXCEPT ![p] = Append(@, Event("SELECT", "pool"))]
    /\ \/ /\ resp' = [resp EXCEPT ![p] = Http(200, {j.category : j \in jokes})]
          /\ pc' = [pc EXCEPT ![p] = "idle"]
          /\ loc' = [loc EXCEPT ![p].terminal = Append(@, "res")]
          /\ UNCHANGED faultsLeft
       \/ FlatThrew(p)
    /\ UNCHANGED << variant, mem, tables, categories, jokes, catSeq, jokeSeq, clock,
                    req, created, addsLeft >>

\* getJokesByCategory: SELECT joke FROM jokes WHERE category = $1
FlatGetJokesByCategory(p) ==
    /\ variant = "flat"
    /\ pc[p] = "getJokesByCategory"
    /\ trace' = [trace EXCEPT ![p] = Append(@, Event("SELECT", "pool"))]
    /\ \/ /\ LET rows == OrderById({j \in jokes : j.category = req[p].category.v})
             IN resp' = [resp EXCEPT ![p] =
                    IF Len(rows) = 0
                    THEN Http(404, [error |-> "No jokes found for this category."])
                    ELSE Http(200, [i \in DOMAIN rows |-> [joke |-> rows[i].joke]])]
          /\ pc' = [pc EXCEPT ![p] = "idle"]
          /\ loc' = [loc EXCEPT ![p].terminal = Append(@, "res")]
          /\ UNCHANGED faultsLeft
       \/ FlatThrew(p)
    /\ UNCHANGED << variant, mem, tables, categories, jokes, catSeq, jokeSeq, clock,
                    req, created, addsLeft >>

\* addJoke: INSERT INTO jokes (joke, category) VALUES ($1, $2) RETURNING id
FlatAddJoke(p) ==
    /\ variant = "flat"
    /\ pc[p] = "addJoke"
    /\ trace' = [trace EXCEPT ![p] = Append(@, Event("INSERT joke", "pool"))]
    /\ \/ /\ jokes' = jokes \cup
                 {[ id |-> jokeSeq + 1,
                    joke |-> req[p].body.joke.v,
                    category |-> req[p].body.category.v,
                    tx |-> 0 ]}
          /\ jokeSeq' = jokeSeq + 1
          /\ resp' = [resp EXCEPT ![p] = Http(201,
                 [ message |-> "Joke added successfully",
                   id |-> jokeSeq + 1,
                   joke |-> req[p].body.joke.v,
                   category |-> req[p].body.category.v ])]
          /\ pc' = [pc EXCEPT ![p] = "idle"]
          /\ loc' = [loc EXCEPT ![p].terminal = Append(@, "res")]
          /\ UNCHANGED faultsLeft
       \/ /\ FlatThrew(p)
          /\ UNCHANGED << jokes, jokeSeq >>
    /\ UNCHANGED << variant, mem, tables, categories, catSeq, clock, req, created,
                    addsLeft >>

-----------------------------------------------------------------------------
(* Specifications *)

\* The snapshots over the relational store do not load part_004.
NoMem ==
    /\ jokeData = << >>
    /\ categoryData = << >>
    /\ nextJokeId = 1
    /\ nextCategoryId = 1

InitProcs ==
    /\ pc = [p \in Procs |-> "idle"]
    /\ req = [p \in Procs |-> NoReq]
    /\ loc = [p \in Procs |-> NoLoc]
    /\ resp = [p \in Procs |-> NoResp]
    /\ trace = [p \in Procs |-> << >>]
    /\ created = {}

\* The store after sql/create_schema.sql has run once (initDb of part_007
\* runs it before the server listens): both tables and the three default
\* categories; adds and faults are the budgets of the run.
InitSeeded(v, adds, faults) ==
    /\ variant = v
    /\ categories = {[id |-> i, name |-> SchemaSeedNames[i], tx |-> 0] :
                         i \in DOMAIN SchemaSeedNames}
    /\ jokes = {}
    /\ catSeq = Len(SchemaSeedNames)
    /\ jokeSeq = 0
    /\ clock = 0
    /\ tables = SchemaTables
    /\ NoMem
    /\ InitProcs
    /\ addsLeft = adds
    /\ faultsLeft = faults

\* A store in which neither the schema script nor initDb has run yet.
InitFresh(v) ==
    /\ variant = v
    /\ categories = {}
    /\ jokes = {}
    /\ catSeq = 0
    /\ jokeSeq = 0
    /\ clock = 0
    /\ tables = {}
    /\ NoMem
    /\ InitProcs
    /\ addsLeft = MaxAdds
    /\ faultsLeft = ListFaults

\* part_004 as loaded: lines 4 to 20.
\* As InitMem, had nextJokeId started at jokeData.length.
InitMemNextIdTaken ==
    /\ variant = "mem"
    /\ jokeData = SeedJokeData
    /\ categoryData = SeedCategoryData
    /\ nextJokeId = Len(SeedJokeData)
    /\ nextCategoryId = Len(SeedCategoryData) + 1
    /\ categories = {}
    /\ jokes = {}
    /\ catSeq = 0
    /\ jokeSeq = 0
    /\ clock = 0
    /\ tables = {}
    /\ InitProcs
    /\ addsLeft = MaxAdds
    /\ faultsLeft = 0

\* The arrays and counters of part_004 as the module sets them, lines 4 to 20.
InitMem ==
    /\ variant = "mem"
    /\ jokeData = SeedJokeData
    /\ categoryData = SeedCategoryData
    /\ nextJokeId = Len(SeedJokeData) + 1
    /\ nextCategoryId = Len(SeedCategoryData) + 1
    /\ categories = {}
    /\ jokes = {}
    /\ catSeq = 0
    /\ jokeSeq = 0
    /\ clock = 0
    /\ tables = {}
    /\ InitProcs
    /\ addsLeft = MaxAdds
    /\ faultsLeft = 0

TxAddJoke(p) ==
    \/ \E body \in AddBodies : TxAddJokeRequest(p, body)
    \/ TxConnect(p)
    \/ TxBegin(p)
    \/ TxUpsertCategory(p)
    \/ TxInsertJoke(p)
    \/ TxCommit(p)
    \/ TxRollback(p)

TxList(p) ==
    \/ \E id \in IdParams \cup { <<"0">>, <<"1", "x">> }, lim \in LimitParams :
           TxListRequest(p, id, lim)
    \/ TxListQuery(p)

NameAddJoke(p) ==
    \/ \E body \in ValidAddBodies : NameAddJokeCall(p, body)
    \/ NameSelectCategory(p)
    \/ NameInsertCategory(p)
    \/ NameInsertJoke(p)
    \/ NameReturnList(p)

\* Category names asked for: a stored one, one that add-joke calls create,
\* and one that is never stored.
ListedNames == {<<"T","e","c","h"," ","J","o","k","e">>, <<"P">>, <<"4">>}

NameList(p) ==
    \E name \in ListedNames, limit \in LimitParams :
        NameGetJokesByCategory(p, name, limit)

Mem(p) ==
    \/ \E body \in AddBodies : MemAddJoke(p, body)
    \/ \E id \in IdParams, lim \in LimitParams : MemGetJokesByCategoryId(p, id, lim)

IdInit(p) ==
    \/ IdInitDb(p)
    \/ IdCreateCategories(p)
    \/ IdCreateJokes(p)
    \/ IdCountCategories(p)
    \/ IdSeedCategories(p)
    \/ IdCountJokes(p)
    \/ IdSelectCategories(p)
    \/ IdSeedJokesInsert(p)

IdAddJoke(p) ==
    \/ \E body \in IdBodies : IdAddJokeRequest(p, body)
    \/ IdAddCheckCategory(p)
    \/ IdAddInsertJoke(p)

IdUpdate(p) ==
    \/ \E id \in JokeIdParams, body \in IdBodies : IdUpdateJokeRequest(p, id, body)
    \/ IdUpdateCheckCategory(p)
    \/ IdUpdateJoke(p)

IdDelete(p) ==
    \/ \E id \in JokeIdParams : IdDeleteJokeRequest(p, id)
    \/ IdDeleteJoke(p)

IdGetJokes(p) ==
    \/ \E categoryId \in CategoryIdQueries : IdGetJokesRequest(p, categoryId)
    \/ IdGetJokesByCategoryId(p)
    \/ IdGetRandomJoke(p)

Router(p) ==
    \/ \E method \in Methods, path \in Paths : RouterRequest(p, method, path)
    \/ RouterGetCategories(p)

\* startServer() of server.js and part_002: const db = await
\* jokeModel.initDb(), first statement of the try block. The process has
\* served nothing yet. Where the required module exports the factory and
\* not a model (models/jokeModel.js under server.js), the call itself
\* throws a TypeError.
StartServer(p) ==
    /\ \A q \in Procs : req[q] = NoReq
    /\ \/ IdInitDb(p)
       \/ /\ variant = "id"
          /\ Idle(p)
          /\ req' = [req EXCEPT ![p] = [op |-> "initDb"]]
          /\ resp' = [resp EXCEPT ![p] = Threw("TypeError")]
          /\ UNCHANGED << variant, mem, tables, categories, jokes, catSeq, jokeSeq,
                          clock, pc, loc, trace, created, addsLeft, faultsLeft >>

\* The server accepts connections: app.listen has been called.
Listening == \E p \in Procs : pc[p] = "listening"

\* startServer() that does not wait for the result of initDb.
StartServerListens(p) ==
    /\ variant = "id"
    /\ Idle(p)
    /\ req[p].op = "initDb"
    /\ pc' = [pc EXCEPT ![p] = "listening"]
    /\ UNCHANGED << variant, mem, tables, categories, jokes, catSeq, jokeSeq, clock,
                    req, loc, resp, trace, created, addsLeft, faultsLeft >>

\* startServer() after the await: the rest of the try block (controller,
\* router, app.use('/jokebook', jokeRouter), app.listen) when initDb has
\* returned; the catch block, process.exit(1), when it has thrown.
StartServerAfterInitDb(p) ==
    /\ variant = "id"
    /\ Idle(p)
    /\ req[p].op = "initDb"
    /\ \/ /\ resp[p].kind = "return"
          /\ pc' = [pc EXCEPT ![p] = "listening"]
          /\ UNCHANGED resp
       \/ /\ resp[p].kind = "throw"
          /\ pc' = [pc EXCEPT ![p] = "exited"]
          /\ resp' = [resp EXCEPT ![p] = [kind |-> "exit", code |-> 1]]
    /\ UNCHANGED << variant, mem, tables, categories, jokes, catSeq, jokeSeq, clock,
                    req, loc, trace, created, addsLeft, faultsLeft >>

\* part_007 under part_006: add-joke requests alone.
SpecTxAdd ==
    InitSeeded("tx", MaxAdds, MaxFaults) /\ [][\E p \in Procs : TxAddJoke(p)]_vars

\* part_007 under part_006: add-joke and listing requests.
SpecTx ==
    InitSeeded("tx", MaxAdds, ListFaults)
        /\ [][\E p \in Procs : TxAddJoke(p) \/ TxList(p)]_vars

\* part_007 under part_006: one caller that keeps adding jokes to one
\* category and lists it, no store failure.
SpecTxMany ==
    /\ InitSeeded("tx", ManyAdds, 0)
    /\ [][\/ TxAddJokeRequest(1, [category |-> Str(<<"p">>), setup |-> Str(<<"s">>),
                                  delivery |-> Str(<<"d">>)])
          \/ TxConnect(1)
          \/ TxBegin(1)
          \/ TxUpsertCategory(1)
          \/ TxInsertJoke(1)
          \/ TxCommit(1)
          \/ TxListRequest(1, <<"4">>, Undefined)
          \/ TxListQuery(1)]_vars

\* jokeModel.js: addJoke calls alone.
SpecName ==
    InitSeeded("name", MaxAdds, MaxFaults) /\ [][\E p \in Procs : NameAddJoke(p)]_vars

\* jokeModel.js: addJoke and getJokesByCategory calls.
SpecNameList ==
    InitSeeded("name", MaxAdds, ListFaults)
        /\ [][\E p \in Procs : NameAddJoke(p) \/ NameList(p)]_vars

\* part_004: add-joke requests, listings of a category and of the categories.
SpecMem ==
    InitMem /\ [][\E p \in Procs : Mem(p) \/ MemGetCategories(p) \/ MemGetRandomJoke(p)]_vars

\* models/jokeModel.js under part_003: initDb, deletions and listings.
SpecIdList ==
    InitFresh("id")
        /\ [][\E p \in Procs : IdInit(p) \/ IdDelete(p) \/ IdGetJokes(p)]_vars

\* models/jokeModel.js under part_003: one caller that may delete every
\* seeded joke and asks for jokes.
SpecIdRandom ==
    /\ InitFresh("id")
    /\ [][\/ IdInit(1)
          \/ \E id \in SeedJokeIdParams : IdDeleteJokeRequest(1, id)
          \/ IdDeleteJoke(1)
          \/ IdGetJokes(1)]_vars

Flat(p) ==
    \/ \E r \in FlatRequests : FlatRequest(p, r)
    \/ FlatGetAllCategories(p)
    \/ FlatGetJokesByCategory(p)
    \/ FlatAddJoke(p)

\* models/jokeModel.js under part_003: initDb and add-joke requests, among
\* them one whose setup is a number.
SpecIdAdd ==
    /\ InitFresh("id")
    /\ [][\E p \in Procs :
             \/ IdInit(p)
             \/ \E body \in IdBodies \cup IdNumberBodies : IdAddJokeRequest(p, body)
             \/ IdAddCheckCategory(p)
             \/ IdAddInsertJoke(p)]_vars

\* The operations that write: add-joke requests to part_004 and to part_007
\* under part_006, among them one whose body carries an id of the client's
\* choosing, and one caller of models/jokeModel.js under part_003 that
\* initialises the store and adds, updates and deletes jokes.
SpecIds ==
    /\ InitMem \/ InitSeeded("tx", MaxAdds, MaxFaults) \/ InitFresh("id")
    /\ [][\/ \E p \in Procs :
               \/ \E body \in ValidAddBodies \cup
                              { [id |-> Num(99), category |-> Str(<<"P">>),
                                 setup |-> Str(<<"s">>), delivery |-> Str(<<"d">>)] } :
                      MemAddJoke(p, body) \/ TxAddJokeRequest(p, body)
               \/ TxConnect(p)
               \/ TxBegin(p)
               \/ TxUpsertCategory(p)
               \/ TxInsertJoke(p)
               \/ TxCommit(p)
               \/ TxRollback(p)
          \/ IdInit(1)
          \/ IdAddJoke(1)
          \/ IdUpdate(1)
          \/ IdDelete(1)]_vars

\* part_007 under part_006 behind the router of routes/jokeRouter.js:
\* listing requests, and requests that the router matches with no route.
SpecTxRouter ==
    /\ InitSeeded("tx", MaxAdds, ListFaults)
    /\ [][\E p \in Procs :
             \/ TxList(p)
             \/ \E method \in Methods, path \in Paths :
                    TxUnmatchedRequest(p, method, path)]_vars

\* addJoke of jokeModel.js, and addJoke of part_007 under part_006, with
\* failing statements.
SpecModels ==
    /\ InitSeeded("name", MaxAdds, MaxFaults) \/ InitSeeded("tx", MaxAdds, MaxFaults)
    /\ [][\E p \in Procs : NameAddJoke(p) \/ TxAddJoke(p)]_vars

\* part_009 under controllers/jokeController.js, over a store that holds
\* the table jokes and no joke yet.
InitFlat ==
    /\ variant = "flat"
    /\ categories = {}
    /\ jokes = {}
    /\ catSeq = 0
    /\ jokeSeq = 0
    /\ clock = 0
    /\ tables = {"jokes"}
    /\ NoMem
    /\ InitProcs
    /\ addsLeft = MaxAdds
    /\ faultsLeft = MaxFaults

SpecFlat == InitFlat /\ [][\E p \in Procs : Flat(p)]_vars

\* server.js: initDb of models/jokeModel.js and requests to the router of
\* part_010.
SpecRouter ==
    InitFresh("id") /\ [][\E p \in Procs : IdInit(p) \/ Router(p)]_vars

\* server.js and part_002: startServer() in the main process, and the
\* requests that reach the /jokebook router, and through it the model,
\* once the server listens.
SpecServer ==
    InitFresh("id")
    /\ [][\/ StartServer(1)
          \/ IdCreateCategories(1) \/ IdCreateJokes(1) \/ IdCountCategories(1)
          \/ IdSeedCategories(1) \/ IdCountJokes(1) \/ IdSelectCategories(1)
          \/ IdSeedJokesInsert(1)
          \/ StartServerAfterInitDb(1)
          \/ Listening /\ \E p \in Procs \ {1} : Router(p) \/ IdAddJoke(p) \/ IdDelete(p)]_vars

\* part_004, and jokeModel.js over a store that the schema script sets up:
\* the stores that create categories by name.
SpecStores ==
    (InitMem \/ InitFresh("name"))
        /\ [][\E p \in Procs : Mem(p) \/ NameAddJoke(p) \/ RunSchema(p)]_vars

\* part_004, and models/jokeModel.js under part_003 with the requests that
\* write: the stores whose jokes carry a category id.
SpecIdMem ==
    (InitMem \/ InitFresh("id"))
        /\ [][\E p \in Procs :
                 Mem(p) \/ IdInit(p) \/ IdAddJoke(p) \/ IdUpdate(p) \/ IdDelete(p)]_vars

-----
(* Claims *)

IsStatement(e) == e.ev \notin {"connect", "release"}

Count(t, ev) == Cardinality({i \in DOMAIN t : t[i].ev = ev})

\* The listing request of p was answered from a store that worked.
ListAnswered(p) ==
    /\ req[p].op = "list"
    /\ Idle(p)
    /\ resp[p].kind = "http"
    /\ resp[p].status \in {200, 404}

\* The add-joke request of p was answered 201.
AddSucceeded(p) ==
    /\ req[p].op = "addJoke"
    /\ resp[p].kind = "http"
    /\ resp[p].status = 201

\* The add-joke call of p has come back to its caller.
AddReturned(p) == req[p].op = "addJoke" /\ Idle(p) /\ resp[p].kind # "none"

\* ... with a failure: the model threw, or the controller answered 500.
AddFailed(p) ==
    /\ AddReturned(p)
    /\ \/ resp[p].kind = "throw"
       \/ (resp[p].kind = "http" /\ resp[p].status = 500)

\* ... with its result.
AddOk(p) ==
    /\ AddReturned(p)
    /\ \/ resp[p].kind = "return"
       \/ (resp[p].kind = "http" /\ resp[p].status = 201)

\* The name under which the call of p stores its category.
StoredName(p) ==
    IF req[p].body.category.t # "string" THEN << >>
    ELSE IF variant = "tx" THEN toLowerCase(req[p].body.category.v)
    ELSE req[p].body.category.v

\* The controller turned the request of p down before calling the model.
Rejected(p) == resp[p].kind = "http" /\ resp[p].status = 400

\* No store failure has happened in the run.
NoStoreFailure == faultsLeft = MaxFaults

\* C1: addJoke is all-or-nothing: when a step of it (category lookup,
\* category insert, joke insert, commit) fails, then after the call has
\* returned no row it wrote is left in either table; in particular no
\* category row created by the call survives a failed joke insert.
C1_AddJokeAllOrNothing ==
    \A p \in Procs :
        AddFailed(p) =>
            /\ loc[p].createdCat \notin IdsOf(categories)
            /\ loc[p].createdJoke \notin IdsOf(jokes)

\* C2: two addJoke calls that name the same category, absent when each of
\* them began (so the calls overlap), both succeed in every interleaving;
\* afterwards one category row has that name and both jokes reference it.
C2_ConcurrentSameNewCategory ==
    \A p, q \in Procs :
        ( /\ p # q
          /\ NoStoreFailure
          /\ AddReturned(p) /\ AddReturned(q)
          /\ ~Rejected(p) /\ ~Rejected(q)
          /\ ~loc[p].seenExists /\ ~loc[q].seenExists
          /\ StoredName(p) = StoredName(q) ) =>
            /\ AddOk(p) /\ AddOk(q)
            /\ Cardinality({c \in categories : c.name = StoredName(p)}) = 1
            /\ \A j \in jokes :
                   j.id \in {loc[p].jokeId, loc[q].jokeId} =>
                       \E c \in categories :
                           c.name = StoredName(p) /\ c.id = j.category_id

\* A listing without a limit has been answered to p.
NoLimitList(p) ==
    /\ req[p].op = "list"
    /\ Idle(p)
    /\ resp[p].kind # "none"
    /\ req[p].limit = Undefined

\* The listing of p failed on the store: 500, or the model threw.
ListFailed(p) ==
    \/ resp[p].kind = "throw"
    \/ (resp[p].kind = "http" /\ resp[p].status = 500)

\* The listing of p was answered with a list of jokes.
ListReturned(p) ==
    \/ resp[p].kind = "return"
    \/ (resp[p].kind = "http" /\ resp[p].status = 200)

\* The ids of the jokes in the list answered to p, in its order.
ListedIds(p) ==
    IF variant = "name" THEN loc[p].listed
    ELSE IF variant = "mem"
    THEN [i \in DOMAIN resp[p].body.data |-> resp[p].body.data[i].id]
    ELSE [i \in DOMAIN resp[p].body |-> resp[p].body[i].id]

Occurrences(s, x) == Cardinality({i \in DOMAIN s : s[i] = x})

\* C3: a joke whose creation was acknowledged, in a category that is listed
\* afterwards with no limit given, is in the returned list exactly once
\* (unless the listing itself failed on the store).
C3_CreatedJokeListedOnce ==
    \A p \in Procs :
        (NoLimitList(p) /\ ~ListFailed(p)) =>
            \A id \in loc[p].ackSeen :
                /\ ListReturned(p)
                /\ Occurrences(ListedIds(p), id) = 1

\* C4: every joke has a category reference that is not null and is the id
\* of exactly one category, in the relational store and in the arrays.
C4_JokeReferencesOneCategory ==
    /\ \A j \in jokes :
           /\ j.category_id # NULL
           /\ Cardinality({c \in categories : c.id = j.category_id}) = 1
    /\ \A i \in DOMAIN jokeData :
           Cardinality({k \in DOMAIN categoryData :
                           categoryData[k].id = jokeData[i].categoryId}) = 1

\* An update has moved a joke to another category after initDb seeded the
\* tables and more jokes than one seeding were stored.
C4_Witness ==
    /\ variant = "id"
    /\ Cardinality(jokes) > Len(IdSeedJokes)
    /\ \E p \in Procs :
           /\ Idle(p)
           /\ req[p].op = "updateJoke"
           /\ resp[p].kind = "http" /\ resp[p].status = 200
           /\ \E j \in jokes : j.id = loc[p].jokeId /\ j.category_id = loc[p].categoryId

\* A field that is absent, empty, or empty after trimming.
Blank(x) == x.t = "undefined" \/ (x.t = "string" /\ trim(x.v) = << >>)

BlankBody(body) == \E f \in DOMAIN body : Blank(body[f])

\* C5: an add-joke request with a blank field is answered 400, no model
\* operation is invoked for it and it adds no row.
C5_BlankFieldRejected ==
    \A p \in Procs :
        (AddReturned(p) /\ BlankBody(req[p].body)) =>
            /\ Rejected(p)
            /\ trace[p] = << >>
            /\ loc[p].createdJoke = 0
            /\ loc[p].createdCat = 0

\* C7: no two category rows have the same name, in the relational store
\* and in the array.
C7_CategoryNamesDistinct ==
    /\ \A c, d \in categories : c.name = d.name => c = d
    /\ \A i, k \in DOMAIN categoryData :
           categoryData[i].name = categoryData[k].name => i = k

\* An add-joke request named a stored category in another case and was
\* given the stored category.
C7_Witness ==
    /\ variant = "mem"
    /\ \E p \in Procs :
           /\ AddOk(p)
           /\ loc[p].seenExists
           /\ \A i \in DOMAIN categoryData : categoryData[i].name # req[p].body.category.v

\* A listing by a well-formed category id has been answered by the store.
ListByIdAnswered(p) ==
    /\ req[p].op = "list"
    /\ Idle(p)
    /\ resp[p].kind = "http"
    /\ resp[p].status \notin {400, 500}

\* C9: a listing by a well-formed id is answered 404 when the category
\* does not exist or has no joke, and 200 with a non-empty list otherwise.
C9_ListStatusByContent ==
    \A p \in Procs :
        ListByIdAnswered(p) =>
            IF ~loc[p].seenExists \/ loc[p].seenJokes = {}
            THEN resp[p].status = 404
            ELSE resp[p].status = 200 /\ Len(resp[p].body) > 0

\* C6: the transactional addJoke acquires one connection from the pool,
\* issues BEGIN, the category upsert, the joke insert and COMMIT or ROLLBACK
\* on that connection while it holds it, and releases it exactly once on
\* every path: after commit, after a rollback, and when the rollback fails.
C6_OneConnectionReleasedOnce ==
    \A p \in Procs :
        LET t == trace[p] IN
        /\ Count(t, "connect") <= 1
        /\ Count(t, "release") <= Count(t, "connect")
        /\ \A i \in DOMAIN t :
               IsStatement(t[i]) =>
                   /\ t[i].on = "client"
                   /\ t[1].ev = "connect"
                   /\ \A k \in 1 .. i : t[k].ev # "release"
        /\ (Idle(p) /\ req[p].op = "addJoke") =>
               Count(t, "release") = Count(t, "connect")

\* C6 witness: a call whose ROLLBACK failed has returned, its connection
\* released once.
C6_Witness ==
    \E p \in Procs :
        /\ Idle(p)
        /\ Count(trace[p], "ROLLBACK failed") = 1
        /\ Count(trace[p], "release") = 1

\* C8: a successful add-joke request is answered 201 with the created joke:
\* a store-generated integer id and the category, setup and delivery exactly
\* as submitted.
C8_CreatedJokeAsSubmitted ==
    \A p \in Procs :
        AddSucceeded(p) =>
            /\ resp[p].body.joke.id \in Nat \ {0}
            /\ resp[p].body.joke.category = req[p].body.category.v
            /\ resp[p].body.joke.setup = req[p].body.setup.v
            /\ resp[p].body.joke.delivery = req[p].body.delivery.v

\* C10: listing a category id that does not exist gives a result that
\* differs from the result for a category that exists without jokes, and
\* is never a success.
C10_MissingCategoryDistinguished ==
    \A p \in Procs :
        (ListAnswered(p) /\ ~loc[p].seenExists) =>
            /\ resp[p].status # 200
            /\ \A q \in Procs :
                   (ListAnswered(q) /\ loc[q].seenExists /\ loc[q].seenJokes = {}) =>
                       resp[p] # resp[q]

\* The random-joke request of p was answered by a store that worked and
\* held no joke, after initDb had seeded the tables.
RandomAnsweredEmpty(p) ==
    /\ req[p].op = "random"
    /\ Idle(p)
    /\ resp[p].kind = "http"
    /\ jokeSeq >= Len(IdSeedJokes)
    /\ jokes = {}
    /\ faultsLeft = ListFaults

\* C11: with no joke stored, the random-joke request is answered 404: not
\* with a 2xx status and not with 500.
C11_RandomOnEmptyIsNotFound ==
    \A p \in Procs : RandomAnsweredEmpty(p) => resp[p].status = 404

\* The step sends the answer to a delete request of p.
DeleteAnswers(p) ==
    /\ req'[p].op = "deleteJoke"
    /\ pc'[p] = "idle"
    /\ resp'[p].kind = "http"
    /\ (pc[p] # "idle" \/ req'[p] # req[p])

\* The id of the request is a positive integer.
ValidId(id) == ~IdInvalid(parseInt(Str(id)))

\* The joke rows the id of p's request names, before the step.
RowsNamed(p) ==
    IF ValidId(req'[p].id)
    THEN {j \in jokes : j.id = parseInt(Str(req'[p].id)).v}
    ELSE {}

\* The store works during the step: the jokes table is there and the
\* statement does not fail.
StoreWorks == "jokes" \in tables /\ faultsLeft' = faultsLeft

\* C12: deleting a joke id that matches no row, the store working, is
\* answered 404, never with a 5xx status, and leaves both tables as they
\* were.
C12_DeleteOfMissingIsNotFound ==
    [][\A p \in Procs :
          (DeleteAnswers(p) /\ StoreWorks /\ ValidId(req'[p].id) /\ RowsNamed(p) = {}) =>
              /\ resp'[p].status = 404
              /\ jokes' = jokes
              /\ categories' = categories]_vars

\* The step sends the answer to an update request of p.
UpdateAnswers(p) ==
    /\ req'[p].op = "updateJoke"
    /\ pc'[p] = "idle"
    /\ resp'[p].kind = "http"
    /\ (pc[p] # "idle" \/ req'[p] # req[p])

\* The body of an add-joke or update request of part_003 is valid: strings
\* that are not empty and the id of a category as a positive integer.
ValidIdBody(body) ==
    /\ body.setup.t = "string" /\ body.setup.v # << >>
    /\ body.punchline.t = "string" /\ body.punchline.v # << >>
    /\ body.categoryId.t = "string" /\ ValidId(body.categoryId.v)

\* C13: an update with a valid id and a valid body, the store working, is
\* answered 404 when no joke has the id, whatever category is submitted;
\* otherwise it is answered 200 with the joke, whose fields are then the
\* submitted ones; no other joke row changes.
C13_UpdateFoundOrNotFound ==
    [][\A p \in Procs :
          ( /\ UpdateAnswers(p)
            /\ StoreWorks /\ "categories" \in tables
            /\ ValidId(req'[p].id) /\ ValidIdBody(req'[p].body) ) =>
              LET id == parseInt(Str(req'[p].id)).v
                  body == req'[p].body
              IN /\ {j \in jokes' : j.id # id} = {j \in jokes : j.id # id}
                 /\ IF RowsNamed(p) = {}
                    THEN resp'[p].status = 404 /\ jokes' = jokes
                    ELSE /\ resp'[p].status = 200
                         /\ resp'[p].body.id = id
                         /\ \E j \in jokes' :
                                /\ j.id = id
                                /\ IdJokeRow(j) = resp'[p].body
                                /\ j.setup = body.setup.v
                                /\ j.punchline = body.punchline.v
                                /\ j.category_id = parseInt(body.categoryId).v]_vars

\* C14: deleting the id of a stored joke, the store working, is answered
\* 204 with an empty body and removes that joke row alone: the other joke
\* rows and the category rows stay; the id then names no row, and a delete
\* of an id that names no row is answered 404.
C14_DeleteRemovesThatJoke ==
    [][\A p \in Procs :
          (DeleteAnswers(p) /\ StoreWorks /\ ValidId(req'[p].id)) =>
              /\ categories' = categories
              /\ jokes' = jokes \ RowsNamed(p)
              /\ IF RowsNamed(p) # {}
                 THEN /\ Cardinality(RowsNamed(p)) = 1
                      /\ resp'[p] = Http(204, << >>)
                 ELSE resp'[p].status = 404]_vars

\* Two deletes of the same seeded joke have been answered, the first 204
\* and the second 404, and the other seeded jokes are still stored.
C14_Witness ==
    \E p, q \in Procs :
        /\ p # q
        /\ Idle(p) /\ Idle(q)
        /\ req[p].op = "deleteJoke" /\ req[q] = req[p]
        /\ resp[q] = Http(204, << >>)
        /\ resp[p].kind = "http" /\ resp[p].status = 404
        /\ Cardinality(jokes) = Len(IdSeedJokes) - 1

\* The call of p has been answered after a statement of it failed.
StoreFailed(p) == Idle(p) /\ loc[p].error # Undefined /\ resp[p].kind = "http"

\* C15: two store failures that differ in the message of the underlying
\* error alone are answered alike, with status 500 and a fixed text that
\* is not the message of the error.
C15_StoreErrorTextNotSent ==
    \A p \in Procs :
        StoreFailed(p) =>
            /\ resp[p].status = 500
            /\ \A f \in DOMAIN resp[p].body : resp[p].body[f] # loc[p].error.message
            /\ \A q \in Procs :
                   (StoreFailed(q) /\ req[q] = req[p]) => resp[q] = resp[p]

\* Two add-joke requests with the same body have failed on the store with
\* different errors and have been answered.
C15_Witness ==
    \E p, q \in Procs :
        /\ StoreFailed(p) /\ StoreFailed(q)
        /\ req[p].op = "addJoke" /\ req[q] = req[p]
        /\ loc[p].error # loc[q].error

\* The body of an error response is a JSON object with an error or a
\* message field.
JsonErrorBody(body) ==
    /\ "contentType" \notin DOMAIN body
    /\ ("error" \in DOMAIN body \/ "message" \in DOMAIN body)

\* C16: every response with a 4xx or 5xx status, those of the application
\* error handler included, has a JSON object as its body, with an error or
\* a message field.
C16_ErrorResponsesAreJson ==
    \A p \in Procs :
        (resp[p].kind = "http" /\ resp[p].status >= 400) => JsonErrorBody(resp[p].body)

\* The call of p has come back to its caller as a failure: the model threw,
\* or the controller that caught the model's error answered 500.
CallFailed(p) ==
    /\ pc'[p] = "idle"
    /\ \/ resp'[p].kind = "throw"
       \/ (resp'[p].kind = "http" /\ resp'[p].status = 500)

\* C17: a model operation one of whose statements fails, or whose
\* transaction cannot commit, fails to its caller: the step in which the
\* statement of p fails either ends the call as a failure or leads to the
\* rollback, and the rollback ends the call as a failure.
C17_StoreFailureIsNotSwallowed ==
    [][\A p \in Procs :
          /\ (faultsLeft' < faultsLeft /\ pc'[p] # pc[p]) =>
                 (pc'[p] = "rollback" \/ CallFailed(p))
          /\ (pc[p] = "rollback" /\ pc'[p] # pc[p]) => CallFailed(p)]_vars

\* The COMMIT of an add-joke call failed, the call rolled back and came
\* back as a failure.
C17_Witness ==
    \E p \in Procs :
        /\ AddFailed(p)
        /\ Count(trace[p], "COMMIT") = 1
        /\ Count(trace[p], "ROLLBACK") = 1

\* The path parameter is the decimal numeral of a positive integer.
PositiveInteger(id) == IsIndex(id) /\ DigitsValue(id, 0) > 0

\* C18: a list-jokes-by-category request whose id path parameter is not a
\* positive integer is answered 400 and invokes no model operation.
C18_NonPositiveIdRejected ==
    \A p \in Procs :
        (req[p].op = "list" /\ ~PositiveInteger(req[p].id)) =>
            /\ Idle(p)
            /\ resp[p].kind = "http"
            /\ resp[p].status = 400

\* Every required field of the add-joke body is present, and one of them
\* has the wrong type.
MalformedAddBody(body) ==
    /\ ~IdMissingFields(body)
    /\ \/ body.setup.t # "string"
       \/ body.punchline.t # "string"
       \/ ~PositiveInteger(TrimStart(body.categoryId.v))

\* C19: an add-joke request whose required fields are all present but
\* malformed in type is answered 400 and never reaches the model: it is
\* never in flight and never answered with another status.
C19_MalformedAddRejected ==
    \A p \in Procs :
        (variant = "id" /\ req[p].op = "addJoke" /\ MalformedAddBody(req[p].body)) =>
            /\ Idle(p)
            /\ resp[p].kind = "http"
            /\ resp[p].status = 400

\* C20: a GET request for /random under the mounted prefix is dispatched
\* to the random-joke handler and to no other.
C20_RandomRouteReachesRandomJoke ==
    \A p \in Procs :
        ( /\ "path" \in DOMAIN req[p]
          /\ req[p].method = "GET"
          /\ req[p].path = << <<"r", "a", "n", "d", "o", "m">> >> ) =>
            req[p].op = "getRandomJoke"

\* C21: a request under the mounted prefix whose method and path match no
\* registered route is answered 404 with a JSON body { error: string }.
C21_UnmatchedIsJsonNotFound ==
    \A p \in Procs :
        req[p].op = "notFound" =>
            /\ resp[p].kind = "http"
            /\ resp[p].status = 404
            /\ DOMAIN resp[p].body = {"error"}

\* The ids are positive and no two elements have the same id.
DistinctPositiveIds(ids, n) ==
    /\ \A i \in 1..n : ids[i] > 0
    /\ \A i, k \in 1..n : ids[i] = ids[k] => i = k

\* C22: joke ids are positive and pairwise distinct, and so are category
\* ids, in the arrays and in the relational store; an id in the body of an
\* add-joke request is the id of neither the joke nor the category the
\* request created or used.
C22_IdsAssignedByStore ==
    /\ DistinctPositiveIds([i \in DOMAIN jokeData |-> jokeData[i].id], Len(jokeData))
    /\ DistinctPositiveIds([i \in DOMAIN categoryData |-> categoryData[i].id],
                           Len(categoryData))
    /\ \A j, k \in jokes : j.id > 0 /\ (j.id = k.id => j = k)
    /\ \A c, d \in categories : c.id > 0 /\ (c.id = d.id => c = d)
    /\ \A p \in Procs :
           (AddOk(p) /\ "id" \in DOMAIN req[p].body) =>
               /\ loc[p].jokeId # req[p].body.id.v
               /\ loc[p].categoryId # req[p].body.id.v

\* Both callers had a joke created from a body that carries an id, in the
\* arrays or in the relational store.
C22_Witness ==
    /\ \A p \in Procs : AddOk(p) /\ "id" \in DOMAIN req[p].body
    /\ Len(jokeData) > Len(SeedJokeData) \/ Cardinality(jokes) = 2

\* C23: the category rows only grow: every step keeps each committed row
\* of the categories table with its id and name, and each element of the
\* category array as it is.
C23_CategoriesOnlyGrow ==
    [][/\ \A c \in Committed(categories) :
              \E d \in Committed(categories') : d.id = c.id /\ d.name = c.name
       /\ Len(categoryData') >= Len(categoryData)
       /\ \A i \in DOMAIN categoryData : categoryData'[i] = categoryData[i]]_vars

\* One add-joke request created a category and another, naming the same
\* category, was given that row.
C23_Witness ==
    \E p, q \in Procs :
        /\ AddOk(p) /\ AddOk(q)
        /\ loc[p].createdCat # 0
        /\ loc[q].createdCat = 0
        /\ loc[q].categoryId = loc[p].categoryId

\* The characters of the names in the order of their code units.
CodeUnitOrder ==
    << " ", "-", "A", "B", "C", "D", "E", "F", "G", "H", "I", "J", "K", "L", "M", "N",
       "O", "P", "Q", "R", "S", "T", "U", "V", "W", "X", "Y", "Z", "a", "b", "c", "d",
       "e", "f", "g", "h", "i", "j", "k", "l", "m", "n", "o", "p", "q", "r", "s", "t",
       "u", "v", "w", "x", "y", "z" >>

CodeUnit(c) == CHOOSE i \in DOMAIN CodeUnitOrder : CodeUnitOrder[i] = c

\* The name a is the name b or comes before it.
RECURSIVE NameNotAfter(_, _)
NameNotAfter(a, b) ==
    IF a = << >> THEN TRUE
    ELSE IF b = << >> THEN FALSE
    ELSE IF Head(a) = Head(b) THEN NameNotAfter(Tail(a), Tail(b))
    ELSE CodeUnit(Head(a)) < CodeUnit(Head(b))

\* C24: the list of categories that a request is answered with holds
\* categories of the store, each once, in ascending order of name, and
\* all of them while no category has been added since.
C24_CategoriesListedByName ==
    \A p \in Procs :
        (req[p].op = "getCategories" /\ resp[p].kind = "http" /\ resp[p].status = 200) =>
            LET data == resp[p].body.data IN
            /\ \A i \in DOMAIN data : \E k \in DOMAIN categoryData : categoryData[k] = data[i]
            /\ \A i, k \in DOMAIN data : data[i] = data[k] => i = k
            /\ Len(data) = Len(categoryData) => data = categoryData
            /\ \A i, k \in DOMAIN data : i < k => NameNotAfter(data[i].name, data[k].name)

\* The step is a getJokesByCategory call of p.
ListCallOf(p) ==
    /\ variant = "name"
    /\ req'[p].op = "list"
    /\ << req'[p], resp'[p], loc'[p] >> # << req[p], resp[p], loc[p] >>

\* C25: getJokesByCategory(name), the store working, returns the sentinel
\* 'invalid category' when no category has that name, an empty list when
\* the category has no jokes, and the jokes of the category otherwise.
C25_ListByNameResult ==
    [][\A p \in Procs :
          (ListCallOf(p) /\ StoreWorks /\ NameLimitAccepted(req'[p].limit)) =>
              LET name == req'[p].category
                  found == NameFoundJokes(name, req'[p].limit)
              IN IF NameSelectRows(name) = {}
                 THEN resp'[p] = Returned("invalid category")
                 ELSE resp'[p] = Returned(NameJokeRows(found))]_vars

\* C26: two add-joke calls whose category names differ in letter case
\* alone are given the same category row.
C26_CategoryNameIgnoresCase ==
    \A p, q \in Procs :
        ( /\ variant \in {"name", "tx", "mem"}
          /\ AddOk(p) /\ AddOk(q)
          /\ req[p].body.category.v # req[q].body.category.v
          /\ toLowerCase(req[p].body.category.v) = toLowerCase(req[q].body.category.v) ) =>
            loc[p].categoryId = loc[q].categoryId

\* C27: a handler of controllers/jokeController.js ends every request with
\* exactly one terminal action: while the request is in flight it has sent
\* nothing and forwarded nothing, and once it is over it has either sent
\* one response or forwarded the error of the store once to next().
C27_OneTerminalAction ==
    \A p \in Procs :
        (variant = "flat" /\ req[p].op # "none") =>
            IF Idle(p)
            THEN /\ Len(loc[p].terminal) = 1
                 /\ loc[p].terminal[1] = "next" <=> loc[p].error # Undefined
                 /\ resp[p].kind = "http"
            ELSE loc[p].terminal = << >> /\ resp[p].kind = "none"

\* An add-joke request was answered 201 by its handler and another, whose
\* INSERT failed after the validation had passed, was forwarded to next().
C27_Witness ==
    \E p, q \in Procs :
        /\ Idle(p) /\ req[p].op = "addJoke" /\ resp[p].status = 201
        /\ loc[p].terminal = << "res" >>
        /\ Idle(q) /\ req[q].op = "addJoke"
        /\ loc[q].terminal = << "next" >>

\* An initDb call has gone through to its last statement before: both
\* tables exist and the default jokes have been inserted once.
Initialised ==
    /\ tables = {"categories", "jokes"}
    /\ jokeSeq >= Len(IdSeedJokes)

\* C28: an initDb call on a store that initDb has initialised before
\* changes no row of categories and no row of jokes in any of its steps,
\* and fails only when a statement of it fails.
C28_InitDbAgainChangesNothing ==
    [][\A p \in Procs :
          (Initialised /\ req[p].op = "initDb" /\ ~Idle(p) /\ pc'[p] # pc[p]) =>
              /\ categories' = categories
              /\ jokes' = jokes
              /\ faultsLeft' = faultsLeft => resp'[p].kind # "throw"]_vars

\* C29: the server starts listening only in the step that follows a
\* successful initDb, with both tables in place; a /jokebook request is
\* taken only while the server listens and the store has its tables; the
\* step after a failed initDb is process.exit(1), and nothing happens
\* after it.
C29_ListensOnlyAfterInitDb ==
    [][/\ (Listening' /\ ~Listening) =>
              /\ \E p \in Procs : req[p].op = "initDb" /\ resp[p].kind = "return"
              /\ tables = {"categories", "jokes"}
       /\ \A p \in Procs :
              (req'[p] # req[p] /\ req'[p].op # "initDb") =>
                  Listening /\ tables = {"categories", "jokes"}
       /\ \A p \in Procs :
              (req[p].op = "initDb" /\ Idle(p) /\ resp[p].kind = "throw") =>
                  /\ pc'[p] = "exited"
                  /\ resp'[p] = [kind |-> "exit", code |-> 1]
                  /\ req' = req
       /\ (\E p \in Procs : pc[p] = "exited") => UNCHANGED vars]_vars

\* A request has been answered by the router of a listening server.
C29_Witness ==
    /\ Listening
    /\ \E p \in Procs : req[p].op = "getCategories" /\ Idle(p) /\ resp[p].kind = "http"

\* initDb has failed and the process has exited.
C29_WitnessExit ==
    \E p \in Procs : pc[p] = "exited" /\ \A q \in Procs \ {p} : req[q] = NoReq

\* The step is a step of a read call of p: a listing of categories, a
\* listing of the jokes of a category, or a random joke.
ReadCallOf(p) ==
    /\ req'[p].op \in {"list", "random", "getCategories", "getAllCategories",
                       "getJokesByCategory"}
    /\ << req'[p], resp'[p], loc'[p], pc'[p] >> # << req[p], resp[p], loc[p], pc[p] >>

\* C30: no step of a read call (listCategories, listJokesByCategory,
\* randomJoke), whatever its answer, changes the categories, the jokes or
\* the id counters of the store.
C30_ReadsLeaveStoreUnchanged ==
    [][\A p \in Procs :
          ReadCallOf(p) =>
              /\ categories' = categories
              /\ jokes' = jokes
              /\ mem' = mem]_vars

\* After a joke was added, each of the three reads has been answered: one
\* with jokes, one not found.
C30_Witness ==
    /\ Len(jokeData) > Len(SeedJokeData)
    /\ \E p, q \in Procs :
           /\ req[p].op = "random" /\ resp[p].kind = "http" /\ resp[p].status = 200
           /\ req[q].op = "list" /\ resp[q].kind = "http" /\ resp[q].status = 404

====
